---- MODULE Spec2Model ----
(***************************************************************************)
(* Model of the rsdu scan engine (src/src/scanner.rs), its entry tree and  *)
(* statistics (src/src/model.rs) and the progress channel to the consumer  *)
(* (src/src/tui.rs, src/src/main.rs).                                      *)
(*                                                                         *)
(* One scan of one filesystem is modelled.  A filesystem object is a node  *)
(* 1..NumNodes; node 1 is the scanned root.  scan_entry runs once per      *)
(* visited node; its atomic steps are the actions Snapshot, Send,          *)
(* Classify, Resolve and Attach.  Text is a sequence of character codes.   *)
(***************************************************************************)
EXTENDS Integers, Sequences, FiniteSets, TLC

\* ------------------------------------------------------------------ bounds
NumNodes == 4
Workers == 2

Nodes == 1..NumNodes
Root == 1
None == "None"

\* ------------------------------------------------------------ text helpers
Slash == 47
Dot == 46
IsDigit(c) == c >= 48 /\ c <= 57

StartsWith(s, p) == Len(s) >= Len(p) /\ SubSeq(s, 1, Len(p)) = p
EndsWith(s, p) == Len(s) >= Len(p) /\ SubSeq(s, Len(s) - Len(p) + 1, Len(s)) = p

\* names of the nodes; node 1 is named by the last component of the root path
\* "r", "dev", "f10", ".h", "f2", "sys"
Names == << <<114>>, <<100, 101, 118>>, <<102, 49, 48>>, <<46, 104>>, <<102, 50>>, <<115, 121, 115>> >>
NodeName(n) == Names[((n - 1) % Len(Names)) + 1]

\* ------------------------------------------------------------- device ids
\* st_dev is 64 bits wide: <<high 32 bits, low 32 bits>>
DevA == <<0, 1>>
DevB == <<0, 2>>
DevC == <<1, 1>>
AsU32(dev) == dev[2]

\* --------------------------------------------------- filesystem objects
\* what stat reports for an object
Meta(kind, size, blocks, dev, ino, nlink, mtime) ==
    [kind |-> kind, size |-> size, blocks |-> blocks, dev |-> dev,
     ino |-> ino, nlink |-> nlink, mtime |-> mtime]

\* an object: lstat result (or failure), the metadata of what a symlink
\* points at (<<>> when it dangles), whether read_dir succeeds on it, whether
\* it holds CACHEDIR.TAG; mtime is <<>> (no time) or <<t>>; yields tells
\* whether the iterator of read_dir on its directory returns Ok for it
Obj(readable, meta, target, list, tag) ==
    [readable |-> readable, meta |-> meta, target |-> target, list |-> list, tag |-> tag,
     yields |-> TRUE]

NoTime == <<>>
PlainFile == Obj(TRUE, Meta("file", 2, 1, DevA, 0, 1, <<1>>), <<>>, FALSE, FALSE)
LinkFile == Obj(TRUE, Meta("file", 3, 2, DevA, 7, 3, <<2>>), <<>>, FALSE, FALSE)
AliasLinkFile == Obj(TRUE, Meta("file", 3, 2, DevC, 7, 3, <<2>>), <<>>, FALSE, FALSE)
FiveByteFile == Obj(TRUE, Meta("file", 5, 8, DevA, 0, 1, <<1>>), <<>>, FALSE, FALSE)
OtherDevFile == Obj(TRUE, Meta("file", 5, 3, DevB, 0, 1, NoTime), <<>>, FALSE, FALSE)
Unreadable == Obj(FALSE, Meta("file", 6, 4, DevA, 0, 1, NoTime), <<>>, FALSE, FALSE)
SubDir == Obj(TRUE, Meta("dir", 4, 8, DevA, 0, 2, <<1>>), <<>>, TRUE, FALSE)
LockedDir == Obj(TRUE, Meta("dir", 4, 8, DevA, 0, 2, <<1>>), <<>>, FALSE, FALSE)
CacheDir == Obj(TRUE, Meta("dir", 4, 8, DevA, 0, 2, <<1>>), <<>>, TRUE, TRUE)
DeadLink == Obj(TRUE, Meta("symlink", 1, 0, DevA, 0, 1, <<1>>), <<>>, FALSE, FALSE)
FileLink == Obj(TRUE, Meta("symlink", 1, 0, DevA, 0, 1, <<1>>), <<LinkFile.meta>>, FALSE, FALSE)
Fifo == Obj(TRUE, Meta("special", 0, 0, DevA, 0, 1, NoTime), <<>>, FALSE, FALSE)
Unknown == Obj(TRUE, Meta("other", 1, 1, DevA, 0, 1, NoTime), <<>>, FALSE, FALSE)
\* a symbolic link to a directory that can be listed through it
DirLink == Obj(TRUE, Meta("symlink", 1, 0, DevA, 0, 1, <<1>>), <<SubDir.meta>>, TRUE, FALSE)
\* a file for which the iterator of read_dir returns Err
Unyielded == [PlainFile EXCEPT !.yields = FALSE]

\* an inode number of 0 in a profile stands for "an inode of its own"
OwnIno(o, n) ==
    IF o.meta.ino = 0 THEN [o EXCEPT !.meta.ino = 100 + n] ELSE o

\* ------------------------------------------------------------ configuration
\* an exclude pattern: valid is FALSE for a malformed glob; a valid pattern
\* "*<suffix>" matches the paths that end in suffix
Pattern(valid, suffix) == [valid |-> valid, suffix |-> suffix]
BadPattern == Pattern(FALSE, <<>>)
TenPattern == Pattern(TRUE, <<49, 48>>)
DevPattern == Pattern(TRUE, <<101, 118>>)

DefaultConfig ==
    [same_fs |-> FALSE, extended |-> FALSE, follow_symlinks |-> FALSE,
     exclude_caches |-> FALSE, exclude_kernfs |-> FALSE, threads |-> 1,
     show_hidden |-> TRUE, exclude_patterns |-> <<>>,
     sort_col |-> "Size", sort_order |-> "Desc",
     sort_dirs_first |-> FALSE, sort_natural |-> TRUE,
     export_json |-> FALSE]

\* ------------------------------------------------------------------ paths
\* PathBuf::join
JoinPath(dir, name) ==
    IF dir # <<>> /\ dir[Len(dir)] = Slash THEN dir \o name ELSE dir \o <<Slash>> \o name

\* path.file_name(): the text after the last '/'
RECURSIVE LastSlash(_, _)
LastSlash(s, i) == IF i = 0 THEN 0 ELSE IF s[i] = Slash THEN i ELSE LastSlash(s, i - 1)
FileName(path) == SubSeq(path, LastSlash(path, Len(path)) + 1, Len(path))

\* "/proc", "/sys", "/dev", "/run", "/tmp", "/var/run", "/var/lock", "/var/tmp"
PSEUDO_FS ==
    { <<47, 112, 114, 111, 99>>, <<47, 115, 121, 115>>, <<47, 100, 101, 118>>,
      <<47, 114, 117, 110>>, <<47, 116, 109, 112>>,
      <<47, 118, 97, 114, 47, 114, 117, 110>>,
      <<47, 118, 97, 114, 47, 108, 111, 99, 107>>,
      <<47, 118, 97, 114, 47, 116, 109, 112>> }

\* ------------------------------------------------- ScanContext predicates
is_excluded_by_pattern(c, path) ==
    \E i \in 1..Len(c.exclude_patterns) : EndsWith(path, c.exclude_patterns[i].suffix)

is_different_filesystem(c, rootdev, device) ==
    IF ~c.same_fs THEN FALSE
    ELSE IF rootdev # <<>> THEN device # rootdev[1]
    ELSE FALSE

\* a match of the mount point as a plain string prefix
is_kernel_filesystem_substring(c, path) ==
    IF ~c.exclude_kernfs THEN FALSE
    ELSE \E p \in PSEUDO_FS : StartsWith(path, p)

is_kernel_filesystem(c, path) ==
    IF ~c.exclude_kernfs THEN FALSE
    ELSE \E p \in PSEUDO_FS :
            /\ StartsWith(path, p)
            /\ (Len(path) = Len(p) \/ path[Len(p) + 1] = Slash)

has_cachedir_tag(c, o) ==
    IF ~c.exclude_caches THEN FALSE ELSE o.tag

\* a filter that skips only "." and ".."
should_include_entry_unfiltered(c, name) ==
    IF name = <<Dot>> \/ name = <<Dot, Dot>> THEN FALSE ELSE TRUE

should_include_entry(c, name) ==
    IF ~c.show_hidden /\ name # <<>> /\ name[1] = Dot THEN FALSE
    ELSE IF name = <<Dot>> \/ name = <<Dot, Dot>> THEN FALSE
    ELSE TRUE

\* get_metadata: <<>> on failure, <<metadata>> on success
get_metadata(o, follow_symlinks) ==
    IF ~o.readable THEN <<>>
    ELSE IF follow_symlinks /\ o.meta.kind = "symlink" THEN o.target
    ELSE <<o.meta>>

get_entry_type(m) ==
    IF m.kind = "dir" THEN "Directory"
    ELSE IF m.kind = "file" THEN "File"
    ELSE IF m.kind = "symlink" THEN "Symlink"
    ELSE IF m.kind = "special" THEN "Special"
    ELSE "File"

\* ------------------------------------------------------------ entry model
is_directory(t) == t \in {"Directory", "OtherFs", "KernelFs"}

EntryNew(id, entry_type, name, size, blocks, device, inode, nlink) ==
    [id |-> id, entry_type |-> entry_type, name |-> name, size |-> size,
     blocks |-> blocks, device |-> device, inode |-> inode, nlink |-> nlink,
     extended |-> <<>>, error |-> "", children |-> <<>>, parent |-> <<>>]

EntryError(id, name, error) ==
    [id |-> id, entry_type |-> "Error", name |-> name, size |-> 0,
     blocks |-> 0, device |-> 0, inode |-> 0, nlink |-> 0,
     extended |-> <<>>, error |-> error, children |-> <<>>, parent |-> <<>>]

\* the slot of a node that no scan_entry call has built an entry for
NoEntry == EntryNew(0, "Unset", <<>>, 0, 0, 0, 0, 0)

HardlinkKey(device, inode) == <<device, inode>>

RECURSIVE Sum(_)
Sum(q) == IF q = <<>> THEN 0 ELSE Head(q) + Sum(Tail(q))

\* Entry::total_size, total_blocks, total_items over the entries e
RECURSIVE total_size(_, _)
total_size(e, n) ==
    e[n].size + Sum([i \in 1..Len(e[n].children) |-> total_size(e, e[n].children[i])])

RECURSIVE total_blocks(_, _)
total_blocks(e, n) ==
    e[n].blocks + Sum([i \in 1..Len(e[n].children) |-> total_blocks(e, e[n].children[i])])

\* a count that leaves out the entry itself
RECURSIVE total_items_below(_, _)
total_items_below(e, n) ==
    Sum([i \in 1..Len(e[n].children) |-> 1 + total_items_below(e, e[n].children[i])])

RECURSIVE total_items(_, _)
total_items(e, n) ==
    1 + Sum([i \in 1..Len(e[n].children) |-> total_items(e, e[n].children[i])])

\* Entry::shared_size over the entries e with the registry hl: an entry with
\* more than one link whose registry record has links outside the tree adds
\* its size, and so does every entry below it
RECURSIVE shared_size(_, _, _)
shared_size(e, hl, n) ==
    LET key == HardlinkKey(e[n].device, e[n].inode)
        shared == IF /\ e[n].nlink > 1
                     /\ key \in DOMAIN hl
                     /\ hl[key].total_links > hl[key].links_in_tree
                  THEN e[n].size ELSE 0
    IN  shared + Sum([i \in 1..Len(e[n].children) |-> shared_size(e, hl, e[n].children[i])])

\* ---------------------------------------------------------------- sorting
IntCmp(x, y) == IF x < y THEN -1 ELSE IF x > y THEN 1 ELSE 0

\* lexicographic comparison of two texts (OsString::cmp)
RECURSIVE SeqCmp(_, _)
SeqCmp(a, b) ==
    IF a = <<>> /\ b = <<>> THEN 0
    ELSE IF a = <<>> THEN -1
    ELSE IF b = <<>> THEN 1
    ELSE IF Head(a) # Head(b) THEN IntCmp(Head(a), Head(b))
    ELSE SeqCmp(Tail(a), Tail(b))

\* a comparison of options in which None is greater than Some
OptCmpNoneLast(a, b) ==
    IF a = <<>> THEN (IF b = <<>> THEN 0 ELSE 1)
    ELSE IF b = <<>> THEN -1
    ELSE IntCmp(a[1], b[1])

\* Option<T>::cmp: None is less than Some
OptCmp(a, b) ==
    IF a = <<>> THEN (IF b = <<>> THEN 0 ELSE -1)
    ELSE IF b = <<>> THEN 1
    ELSE IntCmp(a[1], b[1])

\* an unsigned 64-bit number is kept as its decimal digits without leading
\* zeros (0 is <<>>), so that u64::MAX = 18446744073709551615 is exact
U64MaxDigits == <<1, 8, 4, 4, 6, 7, 4, 4, 0, 7, 3, 7, 0, 9, 5, 5, 1, 6, 1, 5>>

RECURSIVE StripZeros(_)
StripZeros(d) == IF d # <<>> /\ Head(d) = 0 THEN StripZeros(Tail(d)) ELSE d

NumCmp(x, y) == IF Len(x) # Len(y) THEN IntCmp(Len(x), Len(y)) ELSE SeqCmp(x, y)

\* the index after the run of ASCII digits that starts at i
RECURSIVE DigitRunEnd(_, _)
DigitRunEnd(s, i) == IF i <= Len(s) /\ IsDigit(s[i]) THEN DigitRunEnd(s, i + 1) ELSE i

\* scanner.rs extract_number: num.saturating_mul(10).saturating_add(digit)
\* over the run; the result is min(value of the run, u64::MAX)
extract_number(s, i) ==
    LET j == DigitRunEnd(s, i)
        v == StripZeros([k \in 1..(j - i) |-> s[i + k - 1] - 48])
    IN  [num |-> IF NumCmp(v, U64MaxDigits) > 0 THEN U64MaxDigits ELSE v, next |-> j]

RECURSIVE NaturalFrom(_, _, _, _)
NaturalFrom(a, b, i, j) ==
    IF i > Len(a) /\ j > Len(b) THEN 0
    ELSE IF i > Len(a) THEN -1
    ELSE IF j > Len(b) THEN 1
    ELSE IF IsDigit(a[i]) /\ IsDigit(b[j])
         THEN LET x == extract_number(a, i)
                  y == extract_number(b, j)
                  c == NumCmp(x.num, y.num)
              IN  IF c = 0 THEN NaturalFrom(a, b, x.next, y.next) ELSE c
         ELSE IF a[i] = b[j] THEN NaturalFrom(a, b, i + 1, j + 1)
         ELSE IntCmp(a[i], b[j])

\* a comparison of the two texts byte by byte
natural_sort_bytewise(a, b) == SeqCmp(a, b)

natural_sort(a, b) == NaturalFrom(a, b, 1, 1)

\* utils.rs extract_number: the run is collected as text and parsed;
\* parse::<u64>() fails on a value above u64::MAX and unwrap_or gives 0
utils_extract_number(s, i) ==
    LET j == DigitRunEnd(s, i)
        v == StripZeros([k \in 1..(j - i) |-> s[i + k - 1] - 48])
    IN  [num |-> IF NumCmp(v, U64MaxDigits) > 0 THEN <<>> ELSE v, next |-> j]

\* utils.rs natural_compare
RECURSIVE CompareFrom(_, _, _, _)
CompareFrom(a, b, i, j) ==
    IF i > Len(a) /\ j > Len(b) THEN 0
    ELSE IF i > Len(a) THEN -1
    ELSE IF j > Len(b) THEN 1
    ELSE IF IsDigit(a[i]) /\ IsDigit(b[j])
         THEN LET x == utils_extract_number(a, i)
                  y == utils_extract_number(b, j)
                  c == NumCmp(x.num, y.num)
              IN  IF c = 0 THEN CompareFrom(a, b, x.next, y.next) ELSE c
         ELSE IF a[i] = b[j] THEN CompareFrom(a, b, i + 1, j + 1)
         ELSE IntCmp(a[i], b[j])

natural_compare(a, b) == CompareFrom(a, b, 1, 1)

\* calculate_total_entry_size / blocks / items of scanner.rs
RECURSIVE calculate_total_entry_size(_, _)
calculate_total_entry_size(e, n) ==
    e[n].size
    + Sum([i \in 1..Len(e[n].children) |-> calculate_total_entry_size(e, e[n].children[i])])

RECURSIVE calculate_total_entry_blocks(_, _)
calculate_total_entry_blocks(e, n) ==
    e[n].blocks
    + Sum([i \in 1..Len(e[n].children) |-> calculate_total_entry_blocks(e, e[n].children[i])])

RECURSIVE calculate_total_entry_items(_, _)
calculate_total_entry_items(e, n) ==
    1 + Sum([i \in 1..Len(e[n].children) |-> calculate_total_entry_items(e, e[n].children[i])])

EntryMtime(x) == IF x.extended = <<>> THEN <<>> ELSE x.extended[1].mtime

\* a comparator whose descending order also reverses the directory rule
SortCompareReverseAll(c, e, a, b) ==
    LET dirs == IF is_directory(e[a].entry_type) = is_directory(e[b].entry_type) THEN 0
                ELSE IF is_directory(e[a].entry_type) THEN -1 ELSE 1
        cmp == IF c.sort_dirs_first /\ dirs # 0 THEN dirs
               ELSE IntCmp(calculate_total_entry_size(e, a), calculate_total_entry_size(e, b))
    IN  IF c.sort_order = "Asc" THEN cmp ELSE -cmp

\* the comparator closure of sort_entries: -1 Less, 0 Equal, 1 Greater
SortCompare(c, e, a, b) ==
    IF c.sort_dirs_first /\ is_directory(e[a].entry_type) # is_directory(e[b].entry_type)
    THEN (IF is_directory(e[a].entry_type) THEN -1 ELSE 1)
    ELSE LET cmp ==
                 CASE c.sort_col = "Name" ->
                          IF c.sort_natural THEN natural_sort(e[a].name, e[b].name)
                          ELSE SeqCmp(e[a].name, e[b].name)
                   [] c.sort_col = "Size" ->
                          IntCmp(calculate_total_entry_size(e, a), calculate_total_entry_size(e, b))
                   [] c.sort_col = "Blocks" ->
                          IntCmp(calculate_total_entry_blocks(e, a), calculate_total_entry_blocks(e, b))
                   [] c.sort_col = "Items" ->
                          IntCmp(calculate_total_entry_items(e, a), calculate_total_entry_items(e, b))
                   [] c.sort_col = "Mtime" ->
                          OptCmp(EntryMtime(e[a]), EntryMtime(e[b]))
         IN  IF c.sort_order = "Asc" THEN cmp ELSE -cmp

\* slice::sort_by is stable; on short slices it is an insertion sort: each
\* element moves left while it compares Less than its left neighbour
RECURSIVE InsertTail(_, _, _, _, _)
InsertTail(c, e, sorted, x, k) ==
    IF k > 0 /\ SortCompare(c, e, x, sorted[k]) < 0
    THEN InsertTail(c, e, sorted, x, k - 1)
    ELSE SubSeq(sorted, 1, k) \o <<x>> \o SubSeq(sorted, k + 1, Len(sorted))

RECURSIVE SortFrom(_, _, _, _)
SortFrom(c, e, sorted, rest) ==
    IF rest = <<>> THEN sorted
    ELSE SortFrom(c, e, InsertTail(c, e, sorted, Head(rest), Len(sorted)), Tail(rest))

sort_entries(c, e, children) == SortFrom(c, e, <<>>, children)

\* ------------------------------------------------------------------ state
VARIABLES
    fs,           \* the filesystem: the object of every node
    parent,       \* the directory every node is listed in (0 for the root)
    rootPath,     \* the path handed to scan_directory_with_progress
    cfg,          \* the Config of the scan
    hasSender,    \* progress_sender is Some
    phase,        \* "init", "scanning", "done": position of the top-level call
    result,       \* what the top-level call returned
    root_device,  \* ScanContext.root_device
    pc,           \* position of the scan_entry call of every node
    snap,         \* the ProgressStats a scan_entry call has read and not yet sent
    entry,        \* the Entry built for every node
    stats,        \* ScanContext.stats, the six atomic counters
    hardlinks,    \* ScanContext.hardlinks, the registry behind the mutex
    next_id,      \* NEXT_ENTRY_ID
    chan,         \* every message the channel accepted, in order
    rcvd,         \* how many of them the receiver has taken
    rxAlive,      \* the Receiver has not been dropped
    export_handler, \* main's _export_handler is Some
    exported,     \* every tree ExportHandler::export was called with, in order
    exit,         \* position of main: "lib" (the scan is called as a library),
                  \* "setup", "scan", and what main returned, "Ok" or "Err"
    thread,       \* the scan thread of run_application: "none", "running", "finished"
    app,          \* TuiApp.mode with its fields
    the_browser,  \* the Browser of browser::run_browser, <<>> before Browser::new
    arg,          \* the input of a function applied on its own
    ret           \* what that function returned

vars == <<fs, parent, rootPath, cfg, hasSender, phase, result, root_device, pc,
          snap, entry, stats, hardlinks, next_id, chan, rcvd, rxAlive,
          export_handler, exported, exit, thread, app, the_browser, arg, ret>>

\* the state outside the scan call
aux == <<export_handler, exported, exit, thread, app, the_browser, arg, ret>>

input == <<fs, parent, rootPath, cfg, hasSender>>

ZeroStats ==
    [total_entries |-> 0, directories |-> 0, files |-> 0, errors |-> 0,
     total_size |-> 0, total_blocks |-> 0]

\* ProgressStats::from_scan_stats
from_scan_stats(st) ==
    [total_entries |-> st.total_entries, directories |-> st.directories,
     files |-> st.files, errors |-> st.errors, total_size |-> st.total_size]

NoSnap == from_scan_stats(ZeroStats)
NoResult == [status |-> "None"]

RECURSIVE Path(_)
Path(n) == IF n = Root THEN rootPath ELSE JoinPath(Path(parent[n]), NodeName(n))

\* path.file_name().unwrap_or(path.as_os_str())
EntryName(path) == IF FileName(path) = <<>> THEN path ELSE FileName(path)

\* a listing from which the entries whose scan failed are dropped
ListingWithoutFailed(d) ==
    SelectSeq([i \in 1..NumNodes |-> i],
              LAMBDA n : /\ parent[n] = d
                         /\ fs[n].yields
                         /\ should_include_entry(cfg, NodeName(n))
                         /\ get_metadata(fs[n], cfg.follow_symlinks) # <<>>)

\* the entries of d that pass entry.ok() and should_include_entry, in
\* listing order
Listing(d) ==
    SelectSeq([i \in 1..NumNodes |-> i],
              LAMBDA n : parent[n] = d /\ fs[n].yields /\ should_include_entry(cfg, NodeName(n)))

InListing(d, n) == \E i \in 1..Len(Listing(d)) : Listing(d)[i] = n

\* a channel of capacity 1 (sync_channel(1)): send waits while the one slot
\* is taken and the receiver exists
CanSendBounded(ch, taken, alive) == ~alive \/ Len(ch) - taken < 1

\* Sender::send on the channel made by mpsc::channel(): the channel is
\* unbounded, send returns at once whatever the receiver has taken
CanSend(ch, taken, alive) == TRUE

\* a message is queued while the receiver exists and is discarded (send
\* returns Err, which the scan ignores) otherwise
SendMsg(ch, alive, msg) == IF alive THEN Append(ch, msg) ELSE ch

\* ------------------------------------------------------------ initial states
RootOnly == <<Slash>>
HomePath == <<Slash, 104>>

StrictConfig ==
    [DefaultConfig EXCEPT !.same_fs = TRUE, !.exclude_caches = TRUE,
                          !.exclude_kernfs = TRUE, !.extended = TRUE,
                          !.exclude_patterns = <<TenPattern>>,
                          !.sort_col = "Name", !.sort_order = "Asc",
                          !.sort_dirs_first = TRUE]

Run(c, sender, alive) == [cfg |-> c, sender |-> sender, alive |-> alive]

\* the families of scans that are explored: runs (configuration, whether a
\* sender is attached, whether its receiver still exists), root paths, root
\* objects, objects of node 2 and objects of the other nodes; the last node
\* lies in the root or in node 2, every other node in the root
LinkFamily ==
    [runs |-> {Run([DefaultConfig EXCEPT !.threads = t], FALSE, TRUE) : t \in {1, 2}},
     paths |-> {HomePath}, roots |-> {SubDir},
     second |-> {SubDir, LinkFile}, profs |-> {PlainFile, LinkFile}]

ProgressFamily ==
    [runs |-> {Run([DefaultConfig EXCEPT !.threads = t], TRUE, TRUE) : t \in {1, 2}},
     paths |-> {HomePath}, roots |-> {SubDir},
     second |-> {SubDir, Unreadable}, profs |-> {LinkFile}]

ErrorFamily ==
    [runs |-> {Run([DefaultConfig EXCEPT !.threads = t, !.same_fs = b], FALSE, TRUE) :
                  t \in {1, 2}, b \in BOOLEAN}
              \cup {Run([DefaultConfig EXCEPT !.same_fs = b], TRUE, a) :
                        b \in BOOLEAN, a \in BOOLEAN},
     paths |-> {HomePath}, roots |-> {SubDir, Unreadable, LockedDir},
     second |-> {SubDir, LockedDir}, profs |-> {PlainFile, Unreadable}]

ExcludeFamily ==
    [runs |-> {Run([StrictConfig EXCEPT !.threads = t], FALSE, TRUE) : t \in {1, 2}}
              \cup {Run([StrictConfig EXCEPT !.exclude_patterns = <<TenPattern, BadPattern>>],
                        s, TRUE) : s \in BOOLEAN}
              \cup {Run(StrictConfig, TRUE, TRUE)},
     paths |-> {RootOnly, HomePath}, roots |-> {SubDir},
     second |-> {SubDir, CacheDir}, profs |-> {PlainFile, OtherDevFile}]

\* the directory of test_scan_directory_with_files: 5-byte files next to an
\* empty subdirectory
SampleFamily ==
    [runs |-> {Run([DefaultConfig EXCEPT !.threads = t], FALSE, TRUE) : t \in {1, 2}},
     paths |-> {HomePath}, roots |-> {SubDir},
     second |-> {SubDir}, profs |-> {FiveByteFile}]

\* directories with a hidden entry (node 4 is ".h") and entries the listing
\* fails on, with hidden files shown and not shown
ListingFamily ==
    [runs |-> {Run([DefaultConfig EXCEPT !.show_hidden = h], TRUE, TRUE) : h \in BOOLEAN}
              \cup {Run([DefaultConfig EXCEPT !.show_hidden = h, !.threads = 2], FALSE, TRUE) :
                        h \in BOOLEAN},
     paths |-> {HomePath}, roots |-> {SubDir},
     second |-> {SubDir}, profs |-> {PlainFile, Unyielded}]

\* objects to which several of the checks of scan_entry apply at once: below
\* "/" node 2 is "/dev", a pseudo mount point that also matches "*ev", and
\* node 3 is "/f10", which matches "*10"; each is unreadable, on another
\* device, or neither
OrderFamily ==
    [runs |-> {Run([StrictConfig EXCEPT !.exclude_patterns = <<TenPattern, DevPattern>>,
                                        !.threads = t], FALSE, TRUE) : t \in {1, 2}},
     paths |-> {RootOnly}, roots |-> {SubDir},
     second |-> {Unreadable, OtherDevFile, SubDir},
     profs |-> {Unreadable, OtherDevFile, LinkFile}]

Families ==
    {LinkFamily, ProgressFamily, ErrorFamily, ExcludeFamily, SampleFamily, ListingFamily,
     OrderFamily}

Listable(o) ==
    /\ o.readable /\ o.list
    /\ \/ o.meta.kind = "dir"
       \/ o.meta.kind = "symlink" /\ o.target # <<>> /\ o.target[1].kind = "dir"

InitWith(fams) ==
    \E fam \in fams :
    \E run \in fam.runs, rp \in fam.paths, r \in fam.roots :
    \E pr \in [2..NumNodes -> fam.second \cup fam.profs], par \in [2..NumNodes -> {1, 2}] :
        /\ \A n \in 2..(NumNodes - 1) : par[n] = 1
        /\ pr[2] \in fam.second
        /\ \A n \in 3..NumNodes : pr[n] \in fam.profs
        /\ \A n \in 2..NumNodes : par[n] = 2 => Listable(pr[2])
        /\ ~Listable(r) =>
               \A n \in 2..NumNodes :
                   par[n] = 1 /\ pr[n] = CHOOSE x \in (IF n = 2 THEN fam.second ELSE fam.profs) : TRUE
        /\ fs = [n \in Nodes |-> OwnIno(IF n = Root THEN r ELSE pr[n], n)]
        /\ parent = [n \in Nodes |-> IF n = Root THEN 0 ELSE par[n]]
        /\ rootPath = rp
        /\ cfg = run.cfg
        /\ hasSender = run.sender
        /\ phase = "init"
        /\ result = NoResult
        /\ root_device = <<>>
        /\ pc = [n \in Nodes |-> "idle"]
        /\ snap = [n \in Nodes |-> NoSnap]
        /\ entry = [n \in Nodes |-> NoEntry]
        /\ stats = ZeroStats
        /\ hardlinks = <<>>
        /\ next_id = 1
        /\ chan = <<>>
        /\ rcvd = 0
        /\ rxAlive = run.alive

\* the scan is called on its own, not from main
NoApp == [mode |-> "Quit"]

\* no user interface is running
NoUi ==
    /\ thread = "none"
    /\ app = NoApp
    /\ the_browser = <<>>

MainIdle ==
    /\ export_handler = FALSE
    /\ exported = <<>>
    /\ exit = "lib"
    /\ NoUi

\* no function is applied on its own
NoCall ==
    /\ arg = <<>>
    /\ ret = <<>>

Init == InitWith(Families) /\ MainIdle /\ NoCall

\* ---------------------------------------------------------------- messages
Progress(n, st) == [kind |-> "Progress", current_path |-> n, stats |-> st]
Complete(root) == [kind |-> "Complete", root |-> root]

\* ------------------------------------------------- the top-level scan call
\* ScanContext::new: Err(ConfigError) when a pattern does not compile
PatternsCompile(c) == \A i \in 1..Len(c.exclude_patterns) : c.exclude_patterns[i].valid

\* a set-up that skips the patterns that do not compile
StartOutcomeLenient(c, o) ==
    IF c.same_fs /\ get_metadata(o, TRUE) = <<>> THEN "ScanError" ELSE "Scan"

\* how scan_directory_with_progress leaves its set-up: with a configuration
\* error, with a scan error (root metadata, same-filesystem mode only), or
\* into the traversal
StartOutcome(c, o) ==
    IF ~PatternsCompile(c) THEN "ConfigError"
    ELSE IF c.same_fs /\ get_metadata(o, TRUE) = <<>> THEN "ScanError"
    ELSE "Scan"

ScanStart ==
    /\ phase = "init"
    /\ exit \in {"lib", "scan"}
    /\ (hasSender /\ StartOutcome(cfg, fs[Root]) = "Scan") => CanSend(chan, rcvd, rxAlive)
    /\ LET out == StartOutcome(cfg, fs[Root]) IN
        IF out # "Scan"
        THEN /\ phase' = "done"
             /\ result' = [status |-> out]
             /\ UNCHANGED <<root_device, chan>>
        ELSE /\ phase' = "scanning"
             /\ root_device' = IF cfg.same_fs THEN <<get_metadata(fs[Root], TRUE)[1].dev>>
                                ELSE <<>>
             /\ chan' = IF hasSender
                         THEN SendMsg(chan, rxAlive, Progress(Root, from_scan_stats(stats)))
                         ELSE chan
             /\ UNCHANGED result
    /\ UNCHANGED <<aux, input, pc, snap, entry, stats, hardlinks, next_id, rcvd, rxAlive>>

\* after scan_entry(root) returned: the Complete message and Ok(root_entry)
ScanFinish ==
    /\ phase = "scanning"
    /\ pc[Root] = "done"
    /\ hasSender => CanSend(chan, rcvd, rxAlive)
    /\ chan' = IF hasSender THEN SendMsg(chan, rxAlive, Complete(entry[Root])) ELSE chan
    /\ result' = [status |-> "Ok", root |-> entry[Root]]
    /\ phase' = "done"
    /\ UNCHANGED <<aux, input, root_device, pc, snap, entry, stats, hardlinks, next_id,
                   rcvd, rxAlive>>

\* ------------------------------------------------------------- scan_entry
\* calls of scan_entry that occupy a worker: begun, not finished and not
\* waiting for their children
Busy == {n \in Nodes : pc[n] \in {"snapped", "sent", "classified"}}

EarlierDone(d, n) ==
    \A i \in 1..Len(Listing(d)) : Listing(d)[i] < n => pc[Listing(d)[i]] = "done"

\* a pool in which a directory that waits for its children keeps its worker
CanBeginBlocking(n) ==
    /\ pc[n] = "idle"
    /\ IF n = Root THEN phase = "scanning"
       ELSE /\ pc[parent[n]] = "waiting"
            /\ InListing(parent[n], n)
            /\ IF cfg.threads > 1
               THEN Cardinality(Busy \cup {m \in Nodes : pc[m] = "waiting"}) < Workers
               ELSE EarlierDone(parent[n], n)

\* scan_entry(n) may be entered: the root from the top-level call, a child
\* from scan_directory_contents of its parent, by a free worker of the pool
\* when threads > 1 and in listing order otherwise
CanBegin(n) ==
    /\ pc[n] = "idle"
    /\ IF n = Root THEN phase = "scanning"
       ELSE /\ pc[parent[n]] = "waiting"
            /\ InListing(parent[n], n)
            /\ IF cfg.threads > 1 THEN Cardinality(Busy) < Workers
               ELSE EarlierDone(parent[n], n)

\* ProgressStats::from_scan_stats(&context.stats), the argument of send
Snapshot(n) ==
    /\ hasSender
    /\ CanBegin(n)
    /\ snap' = [snap EXCEPT ![n] = from_scan_stats(stats)]
    /\ pc' = [pc EXCEPT ![n] = "snapped"]
    /\ UNCHANGED <<aux, input, phase, result, root_device, entry, stats, hardlinks,
                   next_id, chan, rcvd, rxAlive>>

\* sender.send(ScanMessage::Progress {..})
Send(n) ==
    /\ pc[n] = "snapped"
    /\ CanSend(chan, rcvd, rxAlive)
    /\ chan' = SendMsg(chan, rxAlive, Progress(n, snap[n]))
    /\ pc' = [pc EXCEPT ![n] = "sent"]
    /\ UNCHANGED <<aux, input, phase, result, root_device, snap, entry, stats, hardlinks,
                   next_id, rcvd, rxAlive>>

\* ScanStats: the atomic counters, each changed by one fetch_add
increment_entries(st) == [st EXCEPT !.total_entries = @ + 1]

increment_directories(st) == [st EXCEPT !.directories = @ + 1]

\* a file counter that is stored rather than added to
increment_files_stored(st) == [st EXCEPT !.files = 1]

increment_files(st) == [st EXCEPT !.files = @ + 1]

\* an error counter that is set rather than incremented
increment_errors_flag(st) == [st EXCEPT !.errors = 1]

increment_errors(st) == [st EXCEPT !.errors = @ + 1]

\* a size counter updated by a load and a store of the larger value
add_size_max(st, size) == [st EXCEPT !.total_size = IF @ > size THEN @ ELSE size]

add_size(st, size) == [st EXCEPT !.total_size = @ + size]

add_blocks(st, blocks) == [st EXCEPT !.total_blocks = @ + blocks]

\* a scan_entry that looks at the exclusion patterns before the filesystem
\* boundary and the kernel filesystems
ScanHeadPatternFirst(c, rootdev, path, o, id) ==
    LET md == get_metadata(o, c.follow_symlinks)
        name == EntryName(path)
    IN  IF md = <<>>
        THEN [how |-> "error", entry |-> EntryError(id, name, "Cannot read metadata")]
        ELSE LET m == md[1] IN
             IF is_excluded_by_pattern(c, path)
             THEN [how |-> "placeholder",
                   entry |-> EntryNew(id, "Excluded", name, 0, 0, AsU32(m.dev), m.ino, m.nlink)]
             ELSE IF is_different_filesystem(c, rootdev, m.dev)
             THEN [how |-> "placeholder",
                   entry |-> EntryNew(id, "OtherFs", name, 0, 0, AsU32(m.dev), m.ino, m.nlink)]
             ELSE IF is_kernel_filesystem(c, path)
             THEN [how |-> "placeholder",
                   entry |-> EntryNew(id, "KernelFs", name, 0, 0, AsU32(m.dev), m.ino, m.nlink)]
             ELSE [how |-> "counted",
                   entry |-> EntryNew(id, get_entry_type(m), name, m.size, m.blocks,
                                      AsU32(m.dev), m.ino, m.nlink)]

\* metadata, the three placeholder checks and the classification of
\* scan_entry: the entry built, and whether it was counted in the statistics
\* ("counted"), is a finished placeholder ("placeholder") or a finished
\* error node ("error")
ScanHead(c, rootdev, path, o, id) ==
    LET md == get_metadata(o, c.follow_symlinks)
        name == EntryName(path)
    IN  IF md = <<>>
        THEN [how |-> "error", entry |-> EntryError(id, name, "Cannot read metadata")]
        ELSE LET m == md[1] IN
             IF is_different_filesystem(c, rootdev, m.dev)
             THEN [how |-> "placeholder",
                   entry |-> EntryNew(id, "OtherFs", name, 0, 0, AsU32(m.dev), m.ino, m.nlink)]
             ELSE IF is_kernel_filesystem(c, path)
             THEN [how |-> "placeholder",
                   entry |-> EntryNew(id, "KernelFs", name, 0, 0, AsU32(m.dev), m.ino, m.nlink)]
             ELSE IF is_excluded_by_pattern(c, path)
             THEN [how |-> "placeholder",
                   entry |-> EntryNew(id, "Excluded", name, 0, 0, AsU32(m.dev), m.ino, m.nlink)]
             ELSE [how |-> "counted",
                   entry |-> EntryNew(id, get_entry_type(m), name, m.size, m.blocks,
                                      AsU32(m.dev), m.ino, m.nlink)]

Classify(n) ==
    /\ IF hasSender THEN pc[n] = "sent" ELSE CanBegin(n)
    /\ LET h == ScanHead(cfg, root_device, Path(n), fs[n], next_id) IN
        /\ entry' = [entry EXCEPT ![n] = h.entry]
        /\ next_id' = next_id + 1
        /\ stats' = CASE h.how = "error" -> increment_errors(stats)
                       [] h.how = "placeholder" -> stats
                       [] h.how = "counted" ->
                              add_blocks(add_size(increment_entries(stats), h.entry.size),
                                         h.entry.blocks)
        /\ pc' = [pc EXCEPT ![n] = IF h.how = "counted" THEN "classified" ELSE "done"]
    /\ UNCHANGED <<aux, input, phase, result, root_device, snap, hardlinks, chan, rcvd,
                   rxAlive>>

\* a hardlink block whose later sightings leave the in-tree counter alone
HardlinkResolveUncounted(hl, m, e) ==
    IF m.nlink > 1 /\ e.entry_type = "File"
    THEN LET key == HardlinkKey(AsU32(m.dev), m.ino) IN
         IF key \in DOMAIN hl
         THEN [map |-> hl, entry |-> [e EXCEPT !.entry_type = "Hardlink"]]
         ELSE [map |-> hl @@ (key :> [total_links |-> m.nlink, links_in_tree |-> 1,
                                      size |-> m.size, blocks |-> m.blocks,
                                      first_entry |-> e.id]),
               entry |-> e]
    ELSE [map |-> hl, entry |-> e]

\* the hardlink block without the reclassification of a later sighting
HardlinkResolveUnmarked(hl, m, e) ==
    IF m.nlink > 1 /\ e.entry_type = "File"
    THEN LET key == HardlinkKey(AsU32(m.dev), m.ino) IN
         IF key \in DOMAIN hl
         THEN [map |-> [hl EXCEPT ![key].links_in_tree = @ + 1], entry |-> e]
         ELSE [map |-> hl @@ (key :> [total_links |-> m.nlink, links_in_tree |-> 1,
                                      size |-> m.size, blocks |-> m.blocks,
                                      first_entry |-> e.id]),
               entry |-> e]
    ELSE [map |-> hl, entry |-> e]

\* the hardlink block of scan_entry, executed under the registry mutex: the
\* registry and the entry after it
HardlinkResolve(hl, m, e) ==
    IF m.nlink > 1 /\ e.entry_type = "File"
    THEN LET key == HardlinkKey(AsU32(m.dev), m.ino) IN
         IF key \in DOMAIN hl
         THEN [map |-> [hl EXCEPT ![key].links_in_tree = @ + 1],
               entry |-> [e EXCEPT !.entry_type = "Hardlink"]]
         ELSE [map |-> hl @@ (key :> [total_links |-> m.nlink, links_in_tree |-> 1,
                                      size |-> m.size, blocks |-> m.blocks,
                                      first_entry |-> e.id]),
               entry |-> e]
    ELSE [map |-> hl, entry |-> e]

\* entry.extended = Some(ExtendedInfo {..}) when config.extended
WithExtended(c, m, e) ==
    IF c.extended THEN [e EXCEPT !.extended = <<[mtime |-> m.mtime]>>] ELSE e

\* a directory branch that marks a tagged directory Excluded and lists it
DirOutcomeListingTagged(c, o, e) ==
    IF ~o.list
    THEN [how |-> "error",
          entry |-> [e EXCEPT !.error = "Error scanning directory", !.entry_type = "Error"]]
    ELSE IF has_cachedir_tag(c, o)
    THEN [how |-> "listed", entry |-> [e EXCEPT !.entry_type = "Excluded"]]
    ELSE [how |-> "listed", entry |-> e]

\* the directory branch of scan_entry up to the listing: the cache marker
\* check, then read_dir in scan_directory_contents
DirOutcome(c, o, e) ==
    IF has_cachedir_tag(c, o)
    THEN [how |-> "excluded", entry |-> [e EXCEPT !.entry_type = "Excluded"]]
    ELSE IF ~o.list
    THEN [how |-> "error",
          entry |-> [e EXCEPT !.error = "Error scanning directory", !.entry_type = "Error"]]
    ELSE [how |-> "listed", entry |-> e]

\* a later sighting of an inode that also reclassifies the entry of the
\* first sighting, wherever that entry is by then
ResolveMarkingFirst(n) ==
    /\ pc[n] = "classified"
    /\ LET m == get_metadata(fs[n], cfg.follow_symlinks)[1]
           r == HardlinkResolve(hardlinks, m, entry[n])
           e == WithExtended(cfg, m, r.entry)
           key == HardlinkKey(AsU32(m.dev), m.ino)
           first == IF r.entry.entry_type = "Hardlink"
                    THEN {f \in Nodes : entry[f].id = hardlinks[key].first_entry}
                    ELSE {}
           marked == [f \in Nodes |-> IF f \in first
                                      THEN [entry[f] EXCEPT !.entry_type = "Hardlink"]
                                      ELSE entry[f]]
       IN  /\ hardlinks' = r.map
           /\ IF get_entry_type(m) = "Directory"
              THEN LET d == DirOutcome(cfg, fs[n], e) IN
                   /\ entry' = [marked EXCEPT ![n] = d.entry]
                   /\ stats' = IF d.how = "error"
                               THEN increment_errors(increment_directories(stats))
                               ELSE increment_directories(stats)
                   /\ pc' = [pc EXCEPT ![n] = IF d.how = "listed" THEN "waiting" ELSE "done"]
              ELSE /\ entry' = [marked EXCEPT ![n] = e]
                   /\ stats' = increment_files(stats)
                   /\ pc' = [pc EXCEPT ![n] = "done"]
    /\ UNCHANGED <<aux, input, phase, result, root_device, snap, next_id, chan, rcvd, rxAlive>>

\* scan_entry from the hardlink block to the return of a non-directory, or to
\* the start of the children of a directory
Resolve(n) ==
    /\ pc[n] = "classified"
    /\ LET m == get_metadata(fs[n], cfg.follow_symlinks)[1]
           r == HardlinkResolve(hardlinks, m, entry[n])
           e == WithExtended(cfg, m, r.entry)
       IN  /\ hardlinks' = r.map
           /\ IF get_entry_type(m) = "Directory"
              THEN LET d == DirOutcome(cfg, fs[n], e) IN
                   /\ entry' = [entry EXCEPT ![n] = d.entry]
                   /\ stats' = IF d.how = "error"
                               THEN increment_errors(increment_directories(stats))
                               ELSE increment_directories(stats)
                   /\ pc' = [pc EXCEPT ![n] = IF d.how = "listed" THEN "waiting" ELSE "done"]
              ELSE /\ entry' = [entry EXCEPT ![n] = e]
                   /\ stats' = increment_files(stats)
                   /\ pc' = [pc EXCEPT ![n] = "done"]
    /\ UNCHANGED <<aux, input, phase, result, root_device, snap, next_id, chan, rcvd, rxAlive>>

\* a directory that is finished without waiting for its children
AttachUnjoined(n) ==
    /\ pc[n] = "waiting"
    /\ entry' = [entry EXCEPT ![n].children = sort_entries(cfg, entry, Listing(n))]
    /\ pc' = [pc EXCEPT ![n] = "done"]
    /\ UNCHANGED <<aux, input, phase, result, root_device, snap, stats, hardlinks, next_id,
                   chan, rcvd, rxAlive>>

\* scan_directory_contents returned Ok(children): sort_entries, then the
\* children are pushed and the directory entry is finished
Attach(n) ==
    /\ pc[n] = "waiting"
    /\ \A i \in 1..Len(Listing(n)) : pc[Listing(n)[i]] = "done"
    /\ entry' = [entry EXCEPT ![n].children = sort_entries(cfg, entry, Listing(n))]
    /\ pc' = [pc EXCEPT ![n] = "done"]
    /\ UNCHANGED <<aux, input, phase, result, root_device, snap, stats, hardlinks, next_id,
                   chan, rcvd, rxAlive>>

\* ---------------------------------------------------------------- consumer
\* rx.try_recv() returned Ok(msg)
Recv ==
    /\ rxAlive
    /\ rcvd < Len(chan)
    /\ rcvd' = rcvd + 1
    /\ UNCHANGED <<aux, input, phase, result, root_device, pc, snap, entry, stats,
                   hardlinks, next_id, chan, rxAlive>>

\* the Receiver is dropped (the consumer quits)
DropReceiver ==
    /\ hasSender
    /\ rxAlive
    /\ rxAlive' = FALSE
    /\ UNCHANGED <<aux, input, phase, result, root_device, pc, snap, entry, stats,
                   hardlinks, next_id, chan, rcvd>>

Worker ==
    \E n \in Nodes : Snapshot(n) \/ Send(n) \/ Classify(n) \/ Resolve(n) \/ Attach(n)

Next == ScanStart \/ ScanFinish \/ Worker

Spec == Init /\ [][Next]_vars

\* scans of trees with symbolic links to directories and dangling links
\* (what a link that closes a loop is at the depth where the system refuses
\* to resolve it), with and without symlink following
TerminationFamily ==
    [runs |-> {Run([DefaultConfig EXCEPT !.follow_symlinks = f, !.threads = t], FALSE, TRUE) :
                   f \in BOOLEAN, t \in {1, 2}}
              \cup {Run([DefaultConfig EXCEPT !.follow_symlinks = TRUE], TRUE, TRUE)},
     paths |-> {HomePath}, roots |-> {SubDir},
     second |-> {SubDir, DirLink}, profs |-> {DeadLink, DirLink}]

TerminationInit == InitWith({TerminationFamily}) /\ MainIdle /\ NoCall

\* the calling thread and the pool threads keep running: a step of the scan
\* that stays possible is taken
FairScanSpec == TerminationInit /\ [][Next]_vars /\ WF_vars(Next)

\* the scan together with its consumer: scans with and without a sender,
\* a receiver that takes messages, leaves them or is dropped at any moment.
\* The runs with a sender are sequential (threads = 1); the parallel runs
\* with a sender and a receiver that never reads are those of Spec.
ConsumerFamily ==
    [runs |-> {Run([DefaultConfig EXCEPT !.threads = 1], s, TRUE) : s \in BOOLEAN}
              \cup {Run([DefaultConfig EXCEPT !.threads = 2], FALSE, TRUE)},
     paths |-> {HomePath}, roots |-> {SubDir},
     second |-> {SubDir}, profs |-> {LinkFile}]

ConsumerInit == InitWith({ConsumerFamily}) /\ MainIdle /\ NoCall

ConsumerNext == ScanStart \/ ScanFinish \/ Worker \/ Recv \/ DropReceiver

ConsumerSpec == ConsumerInit /\ [][ConsumerNext]_vars

\* the calling thread and the pool threads keep running, so a scan step that
\* stays possible is taken; the consumer is under no obligation
FairConsumerSpec == ConsumerSpec /\ WF_vars(ScanStart \/ ScanFinish \/ Worker)

\* ------------------------------------------------------------------- main
\* atty::is(Stream::Stdout) of the runs of main modelled here: the output is
\* redirected
StdoutIsTty == FALSE

\* run_application: the TUI is used for a terminal and no export
use_tui(c, tty) == ~c.export_json /\ tty

\* main run with and without --export-json on a small readable directory
MainFamily ==
    [runs |-> {Run([DefaultConfig EXCEPT !.threads = t, !.export_json = x], FALSE, TRUE) :
                   t \in {1, 2}, x \in BOOLEAN},
     paths |-> {HomePath}, roots |-> {SubDir, Unreadable},
     second |-> {SubDir}, profs |-> {PlainFile}]

MainInit ==
    /\ InitWith({MainFamily})
    /\ NoCall
    /\ export_handler = FALSE
    /\ exported = <<>>
    /\ exit = "setup"
    /\ NoUi

\* main up to the call of run_application: the export file is created when
\* an export is asked for and the path is canonicalized; either can fail
MainSetup ==
    /\ exit = "setup"
    /\ \E created \in BOOLEAN, canonical \in BOOLEAN :
        IF (cfg.export_json /\ ~created) \/ ~canonical
        THEN /\ exit' = "Err"
             /\ export_handler' = (cfg.export_json /\ created)
        ELSE /\ exit' = "scan"
             /\ export_handler' = cfg.export_json
    /\ UNCHANGED <<input, phase, result, root_device, pc, snap, entry, stats,
                   hardlinks, next_id, chan, rcvd, rxAlive, exported, thread, app,
                   the_browser, arg, ret>>

\* run_application after scanner::scan_directory has returned: an error is
\* passed on, an export run returns Ok at once, otherwise the browser runs
RunApplicationReturn ==
    /\ exit = "scan"
    /\ ~use_tui(cfg, StdoutIsTty)
    /\ phase = "done"
    /\ \E browser \in {"Ok", "Err"} :
        exit' = IF result.status # "Ok" THEN "Err"
                ELSE IF cfg.export_json THEN "Ok"
                ELSE browser
    /\ UNCHANGED <<input, phase, result, root_device, pc, snap, entry, stats,
                   hardlinks, next_id, chan, rcvd, rxAlive, export_handler,
                   exported, thread, app, the_browser, arg, ret>>

\* the steps of a scan that has no sender (scanner::scan_directory)
QuietWorker == \E n \in Nodes : Classify(n) \/ Resolve(n) \/ Attach(n)

MainNext == MainSetup \/ ScanStart \/ ScanFinish \/ QuietWorker \/ RunApplicationReturn

MainSpec == MainInit /\ [][MainNext]_vars

\* ------------------------------------------------ files on several devices
\* scans that cross filesystems: links of one file, and a file with the same
\* inode number on a device whose id differs above bit 32 only
DeviceFamily ==
    [runs |-> {Run([DefaultConfig EXCEPT !.threads = t], FALSE, TRUE) : t \in {1, 2}},
     paths |-> {HomePath}, roots |-> {SubDir},
     second |-> {SubDir, LinkFile}, profs |-> {LinkFile, AliasLinkFile, OtherDevFile}]

DeviceInit == InitWith({DeviceFamily}) /\ MainIdle /\ NoCall

DeviceNext == ScanStart \/ ScanFinish \/ QuietWorker

DeviceSpec == DeviceInit /\ [][DeviceNext]_vars

\* ------------------------------------------------- the user interfaces
\* ScanMessage::Error
ErrorMessage(message) == [kind |-> "Error", message |-> message]

\* the keys the interfaces tell apart ("q" also stands for Esc, "?" for F1,
\* "Up" for k, "Down" for j, "Home" for g, "End" for G, "Enter" for Right
\* and l, "Left" for h and Backspace, "s" for every other key)
Keys == {"q", "c", "?", "Up", "Down", "PageUp", "PageDown", "Home", "End", "Enter", "Left", "s"}

\* the messages update takes from the channel in one call
MessagesPerTick == 10

\* usize::saturating_sub
saturating_sub(a, b) == IF a > b THEN a - b ELSE 0

Min(a, b) == IF a < b THEN a ELSE b

\* AppMode::Scanning after TuiApp::start_scan: the progress shown
Scanning(path) ==
    [mode |-> "Scanning", current_path |-> path, stats |-> NoSnap, is_complete |-> FALSE]

\* TuiApp::start_browsing
start_browsing(root) ==
    [mode |-> "Browsing", root |-> root, current_dir |-> root, path_stack |-> <<>>,
     selected |-> 0, show_help |-> FALSE]

\* an update that passes over an Error message
RECURSIVE update_passing_errors(_, _, _, _)
update_passing_errors(a, ch, taken, processed) ==
    IF a.mode # "Scanning" \/ processed >= MessagesPerTick \/ taken >= Len(ch)
    THEN [app |-> a, rcvd |-> taken, res |-> "Ok"]
    ELSE LET msg == ch[taken + 1] IN
         CASE msg.kind = "Progress" ->
                  update_passing_errors([a EXCEPT !.current_path = msg.current_path,
                                                  !.stats = msg.stats],
                                        ch, taken + 1, processed + 1)
           [] msg.kind = "Complete" ->
                  [app |-> start_browsing(msg.root), rcvd |-> taken + 1, res |-> "Ok"]
           [] msg.kind = "Error" ->
                  update_passing_errors(a, ch, taken + 1, processed + 1)

\* TuiApp::update: in Scanning mode up to MessagesPerTick messages are taken
\* with try_recv; Progress is stored, Complete starts browsing and returns,
\* Error returns a scan error; in the other modes nothing is done
RECURSIVE update(_, _, _, _)
update(a, ch, taken, processed) ==
    IF a.mode # "Scanning" \/ processed >= MessagesPerTick \/ taken >= Len(ch)
    THEN [app |-> a, rcvd |-> taken, res |-> "Ok"]
    ELSE LET msg == ch[taken + 1] IN
         CASE msg.kind = "Progress" ->
                  update([a EXCEPT !.current_path = msg.current_path, !.stats = msg.stats],
                         ch, taken + 1, processed + 1)
           [] msg.kind = "Complete" ->
                  [app |-> start_browsing(msg.root), rcvd |-> taken + 1, res |-> "Ok"]
           [] msg.kind = "Error" ->
                  [app |-> a, rcvd |-> taken + 1, res |-> "Err"]

\* TuiApp::move_selection
move_selection(a, delta) ==
    IF a.current_dir.children = <<>> THEN a
    ELSE LET max_index == Len(a.current_dir.children) - 1 IN
         [a EXCEPT !.selected = IF delta < 0 THEN saturating_sub(@, -delta)
                                ELSE Min(@ + delta, max_index)]

\* TuiApp::enter_selected, e the entries of the tree
enter_selected(a, e) ==
    IF a.selected < Len(a.current_dir.children)
    THEN LET selected == e[a.current_dir.children[a.selected + 1]] IN
         IF is_directory(selected.entry_type) /\ selected.entry_type # "Error"
         THEN [a EXCEPT !.path_stack = Append(@, a.current_dir),
                        !.current_dir = selected,
                        !.selected = 0]
         ELSE a
    ELSE a

\* TuiApp::handle_key_event: the mode after the key and whether run is left
handle_key_event(a, e, key) ==
    CASE a.mode = "Scanning" -> [app |-> a, quit |-> key \in {"q", "c"}]
      [] a.mode = "Browsing" ->
           CASE key = "q" ->
                    IF a.show_help THEN [app |-> [a EXCEPT !.show_help = FALSE], quit |-> FALSE]
                    ELSE [app |-> a, quit |-> TRUE]
             [] key = "?" -> [app |-> [a EXCEPT !.show_help = ~@], quit |-> FALSE]
             [] key = "Up" ->
                    [app |-> IF ~a.show_help THEN move_selection(a, -1) ELSE a, quit |-> FALSE]
             [] key = "Down" ->
                    [app |-> IF ~a.show_help THEN move_selection(a, 1) ELSE a, quit |-> FALSE]
             [] key = "Home" ->
                    [app |-> IF ~a.show_help THEN [a EXCEPT !.selected = 0] ELSE a,
                     quit |-> FALSE]
             [] key = "End" ->
                    [app |-> IF ~a.show_help /\ a.current_dir.children # <<>>
                             THEN [a EXCEPT !.selected = Len(a.current_dir.children) - 1]
                             ELSE a,
                     quit |-> FALSE]
             [] key = "Enter" ->
                    [app |-> IF ~a.show_help THEN enter_selected(a, e) ELSE a, quit |-> FALSE]
             [] key = "Left" ->
                    [app |-> IF ~a.show_help /\ a.path_stack # <<>>
                             THEN [a EXCEPT !.current_dir = a.path_stack[Len(a.path_stack)],
                                            !.path_stack = SubSeq(@, 1, Len(@) - 1),
                                            !.selected = 0]
                             ELSE a,
                     quit |-> FALSE]
             [] OTHER -> [app |-> a, quit |-> FALSE]
      [] OTHER -> [app |-> a, quit |-> FALSE]

\* run_application with the TUI: TuiApp::new, start_scan and the spawn of the
\* scan thread have been done
TuiStarted ==
    /\ thread = "running"
    /\ app = Scanning(Root)
    /\ the_browser = <<>>

\* a scan thread that reports every return of the scan as an Error
ScanThreadReturnAlways ==
    /\ thread = "running"
    /\ phase = "done"
    /\ thread' = "finished"
    /\ chan' = SendMsg(chan, rxAlive, ErrorMessage(result.status))
    /\ UNCHANGED <<input, phase, result, root_device, pc, snap, entry, stats, hardlinks,
                   next_id, rcvd, rxAlive, export_handler, exported, exit, app,
                   the_browser, arg, ret>>

\* the closure of the scan thread after scan_directory_with_progress has
\* returned: an Err is sent as an Error message
ScanThreadReturn ==
    /\ thread = "running"
    /\ phase = "done"
    /\ thread' = "finished"
    /\ chan' = IF result.status # "Ok"
               THEN SendMsg(chan, rxAlive, ErrorMessage(result.status))
               ELSE chan
    /\ UNCHANGED <<input, phase, result, root_device, pc, snap, entry, stats, hardlinks,
                   next_id, rcvd, rxAlive, export_handler, exported, exit, app,
                   the_browser, arg, ret>>

\* a run loop whose update is called for the first tick only
UpdateFirstTick ==
    /\ thread # "none"
    /\ exit = "scan"
    /\ rcvd = 0
    /\ LET u == update(app, chan, rcvd, 0) IN
        /\ app' = u.app
        /\ rcvd' = u.rcvd
        /\ exit' = IF u.res = "Err" THEN "Err" ELSE exit
        /\ rxAlive' = (rxAlive /\ u.res = "Ok" /\ u.app.mode = "Scanning")
    /\ UNCHANGED <<input, phase, result, root_device, pc, snap, entry, stats, hardlinks,
                   next_id, chan, export_handler, exported, thread, the_browser, arg, ret>>

\* a tick of TuiApp::run: update; its Err ends run and run_application, and
\* the receiver goes with the Scanning mode or with the application
Update ==
    /\ thread # "none"
    /\ exit = "scan"
    /\ LET u == update(app, chan, rcvd, 0) IN
        /\ app' = u.app
        /\ rcvd' = u.rcvd
        /\ exit' = IF u.res = "Err" THEN "Err" ELSE exit
        /\ rxAlive' = (rxAlive /\ u.res = "Ok" /\ u.app.mode = "Scanning")
    /\ UNCHANGED <<input, phase, result, root_device, pc, snap, entry, stats, hardlinks,
                   next_id, chan, export_handler, exported, thread, the_browser, arg, ret>>

\* a key press read by TuiApp::run
TuiKey(key) ==
    /\ thread # "none"
    /\ exit = "scan"
    /\ LET h == handle_key_event(app, entry, key) IN
        /\ app' = h.app
        /\ exit' = IF h.quit THEN "Ok" ELSE exit
        /\ rxAlive' = (rxAlive /\ ~h.quit)
    /\ UNCHANGED <<input, phase, result, root_device, pc, snap, entry, stats, hardlinks,
                   next_id, chan, rcvd, export_handler, exported, thread, the_browser,
                   arg, ret>>

\* the heights of the terminal the old browser is run in
TerminalHeights == {4, 6}

\* Browser::new
Browser_new(root, height) ==
    [root |-> root, current |-> root, path_stack |-> <<>>, selected_index |-> 0,
     scroll_offset |-> 0, terminal_height |-> height, show_help |-> FALSE]

\* Browser::get_visible_height
get_visible_height(b) == saturating_sub(b.terminal_height, 4)

\* Browser::adjust_scroll
adjust_scroll(b) ==
    LET visible_height == get_visible_height(b) IN
    IF b.selected_index < b.scroll_offset
    THEN [b EXCEPT !.scroll_offset = b.selected_index]
    ELSE IF b.selected_index >= b.scroll_offset + visible_height
    THEN [b EXCEPT !.scroll_offset = b.selected_index + 1 - visible_height]
    ELSE b

\* a selection that moves down without a limit
Browser_move_selection_unclamped(b, delta) ==
    IF b.current.children = <<>> THEN b
    ELSE adjust_scroll([b EXCEPT !.selected_index =
                                     IF delta < 0 THEN saturating_sub(@, -delta)
                                     ELSE @ + delta])

\* Browser::move_selection
Browser_move_selection(b, delta) ==
    IF b.current.children = <<>> THEN b
    ELSE LET max_index == Len(b.current.children) - 1 IN
         adjust_scroll([b EXCEPT !.selected_index =
                                     IF delta < 0 THEN saturating_sub(@, -delta)
                                     ELSE Min(@ + delta, max_index)])

\* Browser::enter_selected, e the entries of the tree; indexing past the
\* children panics
Browser_enter_selected(b, e) ==
    IF b.current.children = <<>> THEN b
    ELSE IF b.selected_index >= Len(b.current.children) THEN "panic"
    ELSE LET selected == e[b.current.children[b.selected_index + 1]] IN
         IF is_directory(selected.entry_type) /\ selected.entry_type # "Error"
         THEN [b EXCEPT !.path_stack = Append(@, b.current),
                        !.current = selected,
                        !.selected_index = 0,
                        !.scroll_offset = 0]
         ELSE b

\* Browser::go_back
go_back(b) ==
    IF b.path_stack # <<>>
    THEN [b EXCEPT !.current = b.path_stack[Len(b.path_stack)],
                   !.path_stack = SubSeq(@, 1, Len(@) - 1),
                   !.selected_index = 0,
                   !.scroll_offset = 0]
    ELSE b

\* Browser::handle_key without modifiers: the browser after the key and
\* whether the action is Quit
handle_key(b, e, key) ==
    CASE key = "q" -> [browser |-> b, quit |-> TRUE]
      [] key = "?" -> [browser |-> [b EXCEPT !.show_help = ~@], quit |-> FALSE]
      [] key = "Up" -> [browser |-> Browser_move_selection(b, -1), quit |-> FALSE]
      [] key = "Down" -> [browser |-> Browser_move_selection(b, 1), quit |-> FALSE]
      [] key = "PageUp" ->
             [browser |-> Browser_move_selection(b, -get_visible_height(b)), quit |-> FALSE]
      [] key = "PageDown" ->
             [browser |-> Browser_move_selection(b, get_visible_height(b)), quit |-> FALSE]
      [] key = "Home" ->
             [browser |-> [b EXCEPT !.selected_index = 0, !.scroll_offset = 0],
              quit |-> FALSE]
      [] key = "End" ->
             [browser |-> IF b.current.children # <<>>
                          THEN adjust_scroll([b EXCEPT !.selected_index =
                                                           Len(b.current.children) - 1])
                          ELSE b,
              quit |-> FALSE]
      [] key = "Enter" -> [browser |-> Browser_enter_selected(b, e), quit |-> FALSE]
      [] key = "Left" -> [browser |-> go_back(b), quit |-> FALSE]
      [] OTHER -> [browser |-> b, quit |-> FALSE]

\* run_application without the TUI after scanner::scan_directory returned:
\* an Err is passed on, otherwise browser::run_browser builds the Browser
RunBrowser ==
    /\ exit = "scan"
    /\ thread = "none"
    /\ phase = "done"
    /\ the_browser = <<>>
    /\ IF result.status # "Ok"
       THEN /\ exit' = "Err"
            /\ UNCHANGED the_browser
       ELSE /\ \E height \in TerminalHeights :
                   the_browser' = <<Browser_new(result.root, height)>>
            /\ UNCHANGED exit
    /\ UNCHANGED <<input, phase, result, root_device, pc, snap, entry, stats, hardlinks,
                   next_id, chan, rcvd, rxAlive, export_handler, exported, thread, app,
                   arg, ret>>

\* a key press read by Browser::main_loop
BrowserKey(key) ==
    /\ exit = "scan"
    /\ the_browser # <<>>
    /\ LET h == handle_key(the_browser[1], entry, key) IN
        /\ the_browser' = <<h.browser>>
        /\ exit' = IF h.quit THEN "Ok" ELSE exit
    /\ UNCHANGED <<input, phase, result, root_device, pc, snap, entry, stats, hardlinks,
                   next_id, chan, rcvd, rxAlive, export_handler, exported, thread, app,
                   arg, ret>>

\* runs of run_application on a terminal: with the TUI (a sender) and with
\* the old browser (no sender) under same-filesystem mode, where the root
\* may be unreadable, and with the TUI and a pattern that does not compile
UiFamily ==
    [runs |-> {Run([DefaultConfig EXCEPT !.same_fs = TRUE], sender, TRUE) : sender \in BOOLEAN}
              \cup {Run([DefaultConfig EXCEPT !.exclude_patterns = <<BadPattern>>], TRUE, TRUE)},
     paths |-> {HomePath}, roots |-> {SubDir, Unreadable},
     second |-> {SubDir, OtherDevFile}, profs |-> {PlainFile, SubDir}]

UiInit ==
    /\ InitWith({UiFamily})
    /\ NoCall
    /\ export_handler = FALSE
    /\ exported = <<>>
    /\ exit = "scan"
    /\ IF hasSender THEN TuiStarted ELSE NoUi

UiNext ==
    \/ ScanStart
    \/ ScanFinish
    \/ Worker
    \/ ScanThreadReturn
    \/ Update
    \/ \E key \in Keys : TuiKey(key)
    \/ RunBrowser
    \/ \E key \in Keys : BrowserKey(key)

UiSpec == UiInit /\ [][UiNext]_vars

\* ------------------------------------------------------- reading a result
\* the nodes whose entries make up the tree below (and including) n
RECURSIVE Subtree(_, _)
Subtree(e, n) ==
    {n} \cup UNION {Subtree(e, e[n].children[i]) : i \in 1..Len(e[n].children)}

Tree == Subtree(entry, Root)

\* the top-level call has returned Ok(root)
Returned == phase = "done" /\ result.status = "Ok"

RECURSIVE SumOver(_, _)
SumOver(S, f) ==
    IF S = {} THEN 0
    ELSE LET x == CHOOSE y \in S : TRUE IN f[x] + SumOver(S \ {x}, f)

ProgressEvents == {i \in 1..Len(chan) : chan[i].kind = "Progress"}

\* ------------------------------------------------- functions on their own
\* no scan is running: the scan's variables rest at their initial values
Parked ==
    /\ fs = [n \in Nodes |-> OwnIno(PlainFile, n)]
    /\ parent = [n \in Nodes |-> IF n = Root THEN 0 ELSE Root]
    /\ rootPath = HomePath
    /\ cfg = DefaultConfig
    /\ hasSender = FALSE
    /\ phase = "init"
    /\ result = NoResult
    /\ root_device = <<>>
    /\ pc = [n \in Nodes |-> "idle"]
    /\ snap = [n \in Nodes |-> NoSnap]
    /\ entry = [n \in Nodes |-> NoEntry]
    /\ stats = ZeroStats
    /\ hardlinks = <<>>
    /\ next_id = 1
    /\ chan = <<>>
    /\ rcvd = 0
    /\ rxAlive = TRUE
    /\ export_handler = FALSE
    /\ exported = <<>>
    /\ exit = "lib"
    /\ NoUi

scan == <<fs, parent, rootPath, cfg, hasSender, phase, result, root_device, pc,
          snap, entry, stats, hardlinks, next_id, chan, rcvd, rxAlive,
          export_handler, exported, exit, thread, app, the_browser>>

\* the scan as the TUI sees it: the objects a scan visits, each of which
\* makes scan_entry send one Progress event before the scan returns
MaxEvents == 11

\* the root a scan of an empty directory returns
EmptyRoot == EntryNew(1, "Directory", EntryName(HomePath), 4, 8, AsU32(DevA), 101, 2)

TickInit ==
    /\ fs = [n \in Nodes |-> OwnIno(IF n = Root THEN SubDir ELSE PlainFile, n)]
    /\ parent = [n \in Nodes |-> IF n = Root THEN 0 ELSE Root]
    /\ rootPath = HomePath
    /\ cfg = DefaultConfig
    /\ hasSender = TRUE
    /\ phase = "init"
    /\ result = NoResult
    /\ root_device = <<>>
    /\ pc = [n \in Nodes |-> "idle"]
    /\ snap = [n \in Nodes |-> NoSnap]
    /\ entry = [n \in Nodes |-> NoEntry]
    /\ stats = ZeroStats
    /\ hardlinks = <<>>
    /\ next_id = 1
    /\ chan = <<>>
    /\ rcvd = 0
    /\ rxAlive = TRUE
    /\ export_handler = FALSE
    /\ exported = <<>>
    /\ exit = "scan"
    /\ TuiStarted
    /\ NoCall

\* the Progress event at the head of scan_directory_with_progress and of
\* every scan_entry: send on the unbounded channel returns at once
VisitObject ==
    /\ thread = "running"
    /\ phase # "done"
    /\ Cardinality(ProgressEvents) < MaxEvents
    /\ phase' = "scanning"
    /\ chan' = SendMsg(chan, rxAlive, Progress(Root, NoSnap))
    /\ UNCHANGED <<aux, input, result, root_device, pc, snap, entry, stats, hardlinks,
                   next_id, rcvd, rxAlive>>

\* scan_directory_with_progress returns: Err from its set-up, before any
\* event, or Ok after the Complete message
ScanReturns ==
    /\ thread = "running"
    /\ phase # "done"
    /\ phase' = "done"
    /\ \/ /\ phase = "init"
          /\ result' = [status |-> "ScanError"]
          /\ UNCHANGED chan
       \/ /\ phase = "scanning"
          /\ result' = [status |-> "Ok", root |-> EmptyRoot]
          /\ chan' = SendMsg(chan, rxAlive, Complete(EmptyRoot))
    /\ UNCHANGED <<aux, input, root_device, pc, snap, entry, stats, hardlinks, next_id,
                   rcvd, rxAlive>>

TickNext ==
    \/ VisitObject
    \/ ScanReturns
    \/ ScanThreadReturn
    \/ Update
    \/ \E key \in Keys : TuiKey(key)

\* the loop of TuiApp::run goes on until it is left: update is called again
\* and again
FairTickSpec == TickInit /\ [][TickNext]_vars /\ WF_vars(Update)

\* names: every text of '0', '1', 'a' up to MaxNameLen characters, the
\* names of test_natural_sort and two digit runs above u64::MAX
MaxNameLen == 2
Alphabet == {48, 49, 97}
File2 == <<102, 105, 108, 101, 50>>
File10 == <<102, 105, 108, 101, 49, 48>>
TwoTo64 == <<49, 56, 52, 52, 54, 55, 52, 52, 48, 55, 51, 55, 48, 57, 53, 53, 49, 54, 49, 54>>
TwentyNines == [i \in 1..20 |-> 57]
NamePool ==
    UNION {[1..k -> Alphabet] : k \in 1..MaxNameLen} \cup {File2, File10, TwoTo64, TwentyNines}

OrderInit ==
    /\ Parked
    /\ arg \in NamePool \X NamePool \X NamePool
    /\ ret = [sort |-> <<>>, compare |-> <<>>]

\* the results of a comparator cmp and an extraction num on the names of arg
\* are kept as: ab, ba, bc, ac, aa and the number each name starts with

\* scanner.rs natural_sort applied to the pairs of arg
NaturalSortCall ==
    /\ arg # <<>> /\ ret.sort = <<>>
    /\ LET a == arg[1]  b == arg[2]  c == arg[3] IN
       ret' = [ret EXCEPT !.sort =
                  <<[ab |-> natural_sort(a, b), ba |-> natural_sort(b, a),
                     bc |-> natural_sort(b, c), ac |-> natural_sort(a, c),
                     aa |-> natural_sort(a, a),
                     num |-> [i \in 1..3 |-> extract_number(arg[i], 1).num]]>>]
    /\ UNCHANGED <<scan, arg>>

\* utils.rs natural_compare applied to the pairs of arg
NaturalCompareCall ==
    /\ arg # <<>> /\ ret.compare = <<>>
    /\ LET a == arg[1]  b == arg[2]  c == arg[3] IN
       ret' = [ret EXCEPT !.compare =
                  <<[ab |-> natural_compare(a, b), ba |-> natural_compare(b, a),
                     bc |-> natural_compare(b, c), ac |-> natural_compare(a, c),
                     aa |-> natural_compare(a, a),
                     num |-> [i \in 1..3 |-> utils_extract_number(arg[i], 1).num]]>>]
    /\ UNCHANGED <<scan, arg>>

OrderNext == NaturalSortCall \/ NaturalCompareCall

OrderSpec == OrderInit /\ [][OrderNext]_vars

\* the longest list of siblings handed to a function on its own
MaxSiblings == 3

\* ------------------------------------------------------ export and import
\* a tree outside a scan is a nested value: the children of an entry are
\* entries
\* OsStr::to_string_lossy: a byte that is not valid text (255 here) becomes
\* U+FFFD
InvalidByte == 255
ReplacementChar == 65533
to_string_lossy(name) ==
    [i \in 1..Len(name) |-> IF name[i] = InvalidByte THEN ReplacementChar ELSE name[i]]

\* Entry::to_serializable
RECURSIVE to_serializable(_)
to_serializable(x) ==
    [id |-> x.id, entry_type |-> x.entry_type, name |-> to_string_lossy(x.name),
     size |-> x.size, blocks |-> x.blocks, device |-> x.device, inode |-> x.inode,
     nlink |-> x.nlink, extended |-> x.extended, error |-> x.error,
     children |-> [i \in 1..Len(x.children) |-> to_serializable(x.children[i])]]

\* Entry::from_serializable
RECURSIVE from_serializable(_)
from_serializable(v) ==
    [EntryNew(v.id, v.entry_type, v.name, v.size, v.blocks, v.device, v.inode, v.nlink)
         EXCEPT !.extended = v.extended, !.error = v.error,
                !.children = [i \in 1..Len(v.children) |-> from_serializable(v.children[i])]]

\* the JSON text of a SerializableEntry, as its tokens: every token is a
\* tuple of numbers, a tag followed by the value
TypeNames ==
    <<"File", "Directory", "Symlink", "Hardlink", "Special", "Error", "Excluded",
      "OtherFs", "KernelFs">>
ErrorTexts == <<"Cannot read metadata", "Error scanning directory">>
IndexIn(seq, x) == CHOOSE i \in 1..Len(seq) : seq[i] = x

ObjOpen == <<0>>
ObjClose == <<1>>
ArrOpen == <<2>>
ArrClose == <<3>>
NumTok(x) == <<4, x>>
StrTok(t) == <<5>> \o t
NullTok == <<6>>
TypeTok(t) == <<7, IndexIn(TypeNames, t)>>
ExtTok(x) == IF x = <<>> THEN NullTok ELSE <<8>> \o x[1].mtime
\* an error message that is written as null
ErrTokDropped(e) == NullTok
ErrTok(e) == IF e = "" THEN NullTok ELSE <<9, IndexIn(ErrorTexts, e)>>

RECURSIVE Flatten(_)
Flatten(q) == IF q = <<>> THEN <<>> ELSE Head(q) \o Flatten(Tail(q))

\* serde_json::to_string_pretty(&serializable)
RECURSIVE to_json(_)
to_json(v) ==
    <<ObjOpen, NumTok(v.id), TypeTok(v.entry_type), StrTok(v.name), NumTok(v.size),
      NumTok(v.blocks), NumTok(v.device), NumTok(v.inode), NumTok(v.nlink),
      ExtTok(v.extended), ErrTok(v.error), ArrOpen>>
    \o Flatten([i \in 1..Len(v.children) |-> to_json(v.children[i])])
    \o <<ArrClose, ObjClose>>

\* export_to_json_string
export_to_json_string(x) == to_json(to_serializable(x))

IsNum(tok) == Len(tok) = 2 /\ tok[1] = 4
IsStr(tok) == tok[1] = 5
IsType(tok) == Len(tok) = 2 /\ tok[1] = 7 /\ tok[2] \in 1..Len(TypeNames)
IsExt(tok) == tok = NullTok \/ (tok[1] = 8 /\ Len(tok) <= 2)
IsErr(tok) == tok = NullTok \/ (Len(tok) = 2 /\ tok[1] = 9 /\ tok[2] \in 1..Len(ErrorTexts))

ParseFail == [ok |-> FALSE, next |-> 0, val |-> <<>>]

\* the Deserialize of SerializableEntry: an object with every field, its
\* children an array of such objects
RECURSIVE ParseEntry(_, _)
RECURSIVE ParseChildren(_, _, _)
ParseEntry(t, i) ==
    IF i + 11 > Len(t) THEN ParseFail
    ELSE IF ~(/\ t[i] = ObjOpen /\ IsNum(t[i + 1]) /\ IsType(t[i + 2]) /\ IsStr(t[i + 3])
              /\ \A k \in 4..8 : IsNum(t[i + k])
              /\ IsExt(t[i + 9]) /\ IsErr(t[i + 10]) /\ t[i + 11] = ArrOpen)
    THEN ParseFail
    ELSE LET kids == ParseChildren(t, i + 12, <<>>) IN
         IF ~kids.ok \/ kids.next > Len(t) THEN ParseFail
         ELSE IF t[kids.next] # ObjClose THEN ParseFail
         ELSE [ok |-> TRUE, next |-> kids.next + 1,
               val |-> [id |-> t[i + 1][2], entry_type |-> TypeNames[t[i + 2][2]],
                        name |-> Tail(t[i + 3]), size |-> t[i + 4][2],
                        blocks |-> t[i + 5][2], device |-> t[i + 6][2],
                        inode |-> t[i + 7][2], nlink |-> t[i + 8][2],
                        extended |-> IF t[i + 9] = NullTok THEN <<>>
                                     ELSE <<[mtime |-> Tail(t[i + 9])]>>,
                        error |-> IF t[i + 10] = NullTok THEN ""
                                  ELSE ErrorTexts[t[i + 10][2]],
                        children |-> kids.val]]

ParseChildren(t, i, acc) ==
    IF i > Len(t) THEN ParseFail
    ELSE IF t[i] = ArrClose THEN [ok |-> TRUE, next |-> i + 1, val |-> acc]
    ELSE LET c == ParseEntry(t, i) IN
         IF ~c.ok THEN ParseFail ELSE ParseChildren(t, c.next, Append(acc, c.val))

\* a parse that stops after the first complete object and ignores the rest
from_str_prefix(t) ==
    LET r == ParseEntry(t, 1) IN IF r.ok THEN <<r.val>> ELSE <<>>

\* serde_json::from_str::<SerializableEntry>: <<value>> or <<>> for Err;
\* characters after the value are an error
from_str(t) ==
    LET r == ParseEntry(t, 1) IN
    IF r.ok /\ r.next = Len(t) + 1 THEN <<r.val>> ELSE <<>>

ImportError == [status |-> "ImportError"]

\* import_from_json
import_from_json(json) ==
    LET v == from_str(json) IN
    IF v = <<>> THEN ImportError ELSE [status |-> "Ok", root |-> from_serializable(v[1])]

\* import_from_reader: read_to_string can fail
import_from_reader(read, content) ==
    IF ~read THEN ImportError
    ELSE LET v == from_str(content) IN
         IF v = <<>> THEN ImportError ELSE [status |-> "Ok", root |-> from_serializable(v[1])]

\* import_from_file: File::open can fail
import_from_file(open, read, content) ==
    IF ~open THEN ImportError ELSE import_from_reader(read, content)

\* import_from_stdin
import_from_stdin(read, content) == import_from_reader(read, content)

\* an entry with extended metadata whose mtime is t
Timed(e, t) == [e EXCEPT !.extended = <<[mtime |-> t]>>]

\* the trees that are exported: a Directory with up to MaxSiblings children
\* out of a file with a time, an Error entry, a hardlinked file whose name
\* is not valid text and a directory that holds a hardlink
CodecChildren ==
    << Timed(EntryNew(3, "File", Names[5], 2, 1, 1, 105, 1), <<2>>),
       EntryError(4, Names[3], ErrorTexts[1]),
       EntryNew(5, "File", <<102, InvalidByte>>, 3, 2, 1, 7, 3),
       [EntryNew(2, "Directory", Names[2], 4, 8, 1, 102, 2) EXCEPT
            !.children = <<Timed(EntryNew(6, "Hardlink", Names[4], 3, 2, 1, 7, 3), <<>>)>>] >>

CodecTrees ==
    {[EntryNew(1, "Directory", Names[1], 4, 8, 1, 101, 2) EXCEPT
          !.children = [i \in 1..Len(pick) |-> CodecChildren[pick[i]]]] :
         pick \in UNION {[1..k -> 1..Len(CodecChildren)] : k \in 0..MaxSiblings}}

\* what reaches an import: the exported text, a beginning of it (partial
\* data), or the text followed by more
Variants(json) ==
    {json, json \o <<ObjClose>>} \cup {SubSeq(json, 1, k) : k \in 0..(Len(json) - 1)}

CodecInit ==
    /\ Parked
    /\ arg \in [tree : CodecTrees]
    /\ ret = [json |-> <<>>, imported |-> <<>>]

\* export_to_json_string(&tree)
ExportJson ==
    /\ arg # <<>> /\ ret.json = <<>>
    /\ ret' = [ret EXCEPT !.json = <<export_to_json_string(arg.tree)>>]
    /\ UNCHANGED <<scan, arg>>

Imported(via, open, read, data, res) ==
    <<[via |-> via, io |-> open /\ read, data |-> data, result |-> res]>>

\* import_from_json(&data)
ImportFromJson ==
    /\ ret.json # <<>> /\ ret.imported = <<>>
    /\ \E data \in Variants(ret.json[1]) :
        ret' = [ret EXCEPT !.imported =
                   Imported("string", TRUE, TRUE, data, import_from_json(data))]
    /\ UNCHANGED <<scan, arg>>

\* import_from_file(path) of a file that holds data
ImportFromFile ==
    /\ ret.json # <<>> /\ ret.imported = <<>>
    /\ \E data \in Variants(ret.json[1]), open \in BOOLEAN, read \in BOOLEAN :
        ret' = [ret EXCEPT !.imported =
                   Imported("file", open, read, data, import_from_file(open, read, data))]
    /\ UNCHANGED <<scan, arg>>

\* import_from_stdin() when data is piped in
ImportFromStdin ==
    /\ ret.json # <<>> /\ ret.imported = <<>>
    /\ \E data \in Variants(ret.json[1]), read \in BOOLEAN :
        ret' = [ret EXCEPT !.imported =
                   Imported("stdin", TRUE, read, data, import_from_stdin(read, data))]
    /\ UNCHANGED <<scan, arg>>

CodecNext == ExportJson \/ ImportFromJson \/ ImportFromFile \/ ImportFromStdin

CodecSpec == CodecInit /\ [][CodecNext]_vars

\* sort_entries on its own: up to MaxSiblings entries in listing order,
\* every sort column, both orders, with and without directories first
SortPool ==
    << Timed(EntryNew(0, "Directory", Names[2], 4, 8, 1, 102, 2), <<1>>),
       EntryNew(0, "OtherFs", Names[6], 0, 0, 0, 0, 0),
       Timed(EntryNew(0, "File", Names[5], 2, 1, 1, 105, 1), <<2>>),
       EntryNew(0, "File", Names[3], 5, 3, 1, 103, 1),
       Timed(EntryNew(0, "File", Names[4], 3, 2, 1, 104, 1), <<>>),
       Timed(EntryNew(0, "Symlink", Names[1], 1, 0, 1, 101, 1), <<1>>) >>

SortConfigs ==
    {[DefaultConfig EXCEPT !.sort_col = col, !.sort_order = ord, !.sort_dirs_first = d] :
         col \in {"Name", "Size", "Blocks", "Items", "Mtime"},
         ord \in {"Asc", "Desc"}, d \in BOOLEAN}

SortInit ==
    /\ Parked
    /\ \E k \in 1..MaxSiblings, c \in SortConfigs :
       \E pick \in [1..k -> 1..Len(SortPool)] :
           arg = [config |-> c, entries |-> [i \in 1..k |-> SortPool[pick[i]]]]
    /\ ret = <<>>

\* sort_entries(&mut child_entries, config) on the entries of arg
SortEntriesCall ==
    /\ arg # <<>> /\ ret = <<>>
    /\ ret' = <<sort_entries(arg.config, arg.entries, [i \in 1..Len(arg.entries) |-> i])>>
    /\ UNCHANGED <<scan, arg>>

SortNext == SortEntriesCall

SortSpec == SortInit /\ [][SortNext]_vars

\* is_kernel_filesystem and the checks of scan_entry on their own: a path,
\* the object found there, kernel-filesystem exclusion and same-filesystem
\* mode on and off
TextX == <<120>>
TextFoo == <<102, 111, 111>>
KernelPaths ==
    {p \o t : p \in PSEUDO_FS,
              t \in {<<>>, <<Slash>>, <<Slash>> \o TextX, TextX, TextFoo,
                     <<Slash>> \o TextX \o <<Slash>> \o TextFoo}}
    \cup {HomePath \o p : p \in PSEUDO_FS}
    \cup {Tail(p) : p \in PSEUDO_FS}
    \cup {RootOnly, HomePath, <<Slash, 112, 114, 111>>}

KernelConfigs ==
    {[DefaultConfig EXCEPT !.exclude_kernfs = k, !.same_fs = x] : k \in BOOLEAN, x \in BOOLEAN}

KernelInit ==
    /\ Parked
    /\ \E c \in KernelConfigs, path \in KernelPaths, o \in {SubDir, Unreadable, OtherDevFile} :
           arg = [config |-> c, path |-> path, object |-> o,
                  rootdev |-> IF c.same_fs THEN <<DevA>> ELSE <<>>]
    /\ ret = [kernel |-> <<>>, head |-> <<>>]

\* context.is_kernel_filesystem(path)
IsKernelFilesystemCall ==
    /\ arg # <<>> /\ ret.kernel = <<>>
    /\ ret' = [ret EXCEPT !.kernel = <<is_kernel_filesystem(arg.config, arg.path)>>]
    /\ UNCHANGED <<scan, arg>>

\* scan_entry(path, context) up to the classification
ScanEntryHeadCall ==
    /\ arg # <<>> /\ ret.head = <<>>
    /\ ret' = [ret EXCEPT !.head =
                  <<ScanHead(arg.config, arg.rootdev, arg.path, arg.object, next_id)>>]
    /\ UNCHANGED <<scan, arg>>

KernelNext == IsKernelFilesystemCall \/ ScanEntryHeadCall

KernelSpec == KernelInit /\ [][KernelNext]_vars

\* generate_entry_id on its own: the calls of the workers of two scans that
\* run in one process, in the order in which they reach NEXT_ENTRY_ID
MaxCalls == 4
Callers == {<<s, w>> : s \in 1..2, w \in 1..Workers}

\* a generator that loses its increment
generate_entry_id_stuck(counter) == [id |-> counter, next |-> counter]

\* NEXT_ENTRY_ID.fetch_add(1, Ordering::Relaxed): the value before the
\* addition is returned
generate_entry_id(counter) == [id |-> counter, next |-> counter + 1]

IdInit ==
    /\ Parked
    /\ arg = <<>>
    /\ ret = <<>>

\* Entry::new(generate_entry_id(), ..) in scan_entry of worker w of scan s
GenerateEntryId(s, w) ==
    /\ Len(ret) < MaxCalls
    /\ LET g == generate_entry_id(next_id) IN
        /\ ret' = Append(ret, [scan |-> s, worker |-> w, id |-> g.id])
        /\ next_id' = g.next
    /\ UNCHANGED <<fs, parent, rootPath, cfg, hasSender, phase, result, root_device, pc,
                   snap, entry, stats, hardlinks, chan, rcvd, rxAlive,
                   export_handler, exported, exit, thread, app, the_browser, arg>>

IdNext == \E c \in Callers : GenerateEntryId(c[1], c[2])

IdSpec == IdInit /\ [][IdNext]_vars

\* the sort option of the command line: validation (cli.rs) and parsing
\* (config.rs) on their own
Dash == 45
TextName == <<110, 97, 109, 101>>
TextDiskUsage == <<100, 105, 115, 107, 45, 117, 115, 97, 103, 101>>
TextApparentSize == <<97, 112, 112, 97, 114, 101, 110, 116, 45, 115, 105, 122, 101>>
TextItemcount == <<105, 116, 101, 109, 99, 111, 117, 110, 116>>
TextMtime == <<109, 116, 105, 109, 101>>
TextBlocks == <<98, 108, 111, 99, 107, 115>>
TextAsc == <<97, 115, 99>>
TextDesc == <<100, 101, 115, 99>>
TextInvalid == <<105, 110, 118, 97, 108, 105, 100>>

\* str::rsplit_once: <<>> when c does not occur in s, otherwise the text
\* before and the text after the last c
RECURSIVE LastIndexOf(_, _, _)
LastIndexOf(s, c, i) == IF i = 0 THEN 0 ELSE IF s[i] = c THEN i ELSE LastIndexOf(s, c, i - 1)
rsplit_once(s, c) ==
    LET i == LastIndexOf(s, c, Len(s)) IN
    IF i = 0 THEN <<>> ELSE <<SubSeq(s, 1, i - 1), SubSeq(s, i + 1, Len(s))>>

valid_columns == {TextName, TextDiskUsage, TextApparentSize, TextItemcount, TextMtime}
valid_orders == {TextAsc, TextDesc}

is_valid_sort_option(sort) ==
    LET sp == rsplit_once(sort, Dash) IN
    IF sp # <<>> THEN sp[1] \in valid_columns /\ sp[2] \in valid_orders
    ELSE sort \in valid_columns

\* Config::parse_sort_option: Err, or Ok with the column and order it set
parse_sort_option(sort) ==
    LET sp == rsplit_once(sort, Dash)
        column == IF sp # <<>> THEN sp[1] ELSE sort
        order == IF sp # <<>> THEN <<sp[2]>> ELSE <<>>
        col == CASE column = TextName -> "Name"
                 [] column = TextDiskUsage -> "Blocks"
                 [] column = TextBlocks -> "Blocks"
                 [] column = TextApparentSize -> "Size"
                 [] column = TextItemcount -> "Items"
                 [] column = TextMtime -> "Mtime"
                 [] OTHER -> "Err"
        ord == IF order # <<>>
               THEN (CASE order[1] = TextAsc -> "Asc"
                       [] order[1] = TextDesc -> "Desc"
                       [] OTHER -> "Err")
               ELSE IF col \in {"Name", "Mtime"} THEN "Asc" ELSE "Desc"
    IN  IF col = "Err" \/ ord = "Err" THEN [status |-> "Err"]
        ELSE [status |-> "Ok", sort_col |-> col, sort_order |-> ord]

SortOptions ==
    {c \o x : c \in valid_columns \cup {TextBlocks, TextInvalid, <<>>},
              x \in {<<>>, <<Dash>>, <<Dash>> \o TextAsc, <<Dash>> \o TextDesc,
                     <<Dash>> \o TextInvalid}}

OptionInit ==
    /\ Parked
    /\ arg \in SortOptions
    /\ ret = [valid |-> <<>>, parsed |-> <<>>]

\* Args::validate on --sort
IsValidSortOptionCall ==
    /\ ret.valid = <<>>
    /\ ret' = [ret EXCEPT !.valid = <<is_valid_sort_option(arg)>>]
    /\ UNCHANGED <<scan, arg>>

\* Config::apply_args on --sort
ParseSortOptionCall ==
    /\ ret.parsed = <<>>
    /\ ret' = [ret EXCEPT !.parsed = <<parse_sort_option(arg)>>]
    /\ UNCHANGED <<scan, arg>>

OptionNext == IsValidSortOptionCall \/ ParseSortOptionCall

OptionSpec == OptionInit /\ [][OptionNext]_vars

\* ----------------------------------------------------------------- claims

\* entries of regular files with several links, and those of them that share
\* the (device, inode) key of n
LinkEntries == {n \in Tree : entry[n].entry_type \in {"File", "Hardlink"} /\ entry[n].nlink > 1}
SameKey(n) ==
    {m \in LinkEntries : entry[m].device = entry[n].device /\ entry[m].inode = entry[n].inode}

\* C1: in a returned tree, among the regular-file entries with link count
\* > 1 that share a (device, inode) key exactly one is File and all the
\* others are Hardlink, for sequential and parallel scans
C1_OneFilePerKey ==
    Returned =>
        \A n \in LinkEntries :
            Cardinality({m \in SameKey(n) : entry[m].entry_type = "File"}) = 1

C1_Witness ==
    /\ Returned
    /\ cfg.threads > 1
    /\ \E n \in LinkEntries : Cardinality(SameKey(n)) >= 3
    /\ \E n \in LinkEntries : \E m \in SameKey(n) :
           n < m /\ entry[n].entry_type = "Hardlink" /\ entry[m].entry_type = "File"

SizeOnce == [n \in Nodes |-> IF entry[n].entry_type = "Hardlink" THEN 0 ELSE entry[n].size]
BlocksOnce == [n \in Nodes |-> IF entry[n].entry_type = "Hardlink" THEN 0 ELSE entry[n].blocks]

\* C2: after a scan the totals count a hardlinked inode once: the size and
\* block counters and the root's total_size()/total_blocks() equal the sums
\* over the tree in which every entry reclassified Hardlink adds nothing
C2_HardlinkCountedOnce ==
    Returned =>
        /\ stats.total_size = SumOver(Tree, SizeOnce)
        /\ stats.total_blocks = SumOver(Tree, BlocksOnce)
        /\ total_size(entry, Root) = SumOver(Tree, SizeOnce)
        /\ total_blocks(entry, Root) = SumOver(Tree, BlocksOnce)

\* C3: every entry classified Excluded, OtherFs or KernelFs has size 0,
\* blocks 0 and no children
C3_PlaceholderZeroWeight ==
    \A n \in Nodes :
        entry[n].entry_type \in {"Excluded", "OtherFs", "KernelFs"} =>
            entry[n].size = 0 /\ entry[n].blocks = 0 /\ entry[n].children = <<>>

\* the entries of the root directory that the scan considers
RootEntries == {n \in Nodes : parent[n] = Root /\ should_include_entry(cfg, NodeName(n))}
MetadataFails(n) == get_metadata(fs[n], cfg.follow_symlinks) = <<>>
\* metadata can be read and, for a directory, so can its listing
FullyReadable(n) ==
    /\ ~MetadataFails(n)
    /\ fs[n].meta.kind = "dir" => fs[n].list
\* no filter or placeholder rule of the configuration applies to the entries
Unfiltered ==
    /\ cfg.show_hidden /\ cfg.exclude_patterns = <<>>
    /\ ~cfg.exclude_kernfs /\ ~cfg.exclude_caches
    /\ \A n \in RootEntries : fs[n].meta.dev = fs[Root].meta.dev
\* the classifications that are the real type of a readable object
RealTypes(n) ==
    LET t == get_entry_type(get_metadata(fs[n], cfg.follow_symlinks)[1]) IN
    IF t = "File" /\ fs[n].meta.nlink > 1 THEN {"File", "Hardlink"} ELSE {t}

OneUnreadableAmongReadable ==
    /\ Unfiltered
    /\ Listable(fs[Root])
    /\ Cardinality({n \in RootEntries : MetadataFails(n)}) = 1
    /\ \A n \in RootEntries : MetadataFails(n) \/ FullyReadable(n)

\* C4: the scan of a readable directory with one entry whose metadata
\* cannot be read among N readable entries returns Ok, and the root has
\* N + 1 children, one per entry: the unreadable one classified Error, every
\* other one as its real type; sequential and parallel
C4_OneErrorChild ==
    (phase = "done" /\ OneUnreadableAmongReadable) =>
        /\ result.status = "Ok"
        /\ Len(result.root.children) = Cardinality(RootEntries)
        /\ \A n \in RootEntries :
               /\ \E i \in 1..Len(result.root.children) : result.root.children[i] = n
               /\ IF MetadataFails(n) THEN entry[n].entry_type = "Error"
                  ELSE entry[n].entry_type \in RealTypes(n)

C4_Witness ==
    /\ phase = "done" /\ OneUnreadableAmongReadable
    /\ cfg.threads > 1
    /\ Cardinality(RootEntries) >= 3
    /\ \E n \in RootEntries : entry[n].entry_type = "Directory"

\* C5: when the metadata of the root path cannot be read, the scan call
\* returns a scan error and no tree, in every configuration
C5_RootFailureIsFatal ==
    (phase = "done" /\ PatternsCompile(cfg) /\ MetadataFails(Root)) =>
        result.status = "ScanError"

\* C6: every entry classified Error has size 0, blocks 0, no children and a
\* non-empty error message
C6_ErrorNodeShape ==
    \A n \in Nodes :
        entry[n].entry_type = "Error" =>
            /\ entry[n].size = 0 /\ entry[n].blocks = 0
            /\ entry[n].children = <<>>
            /\ entry[n].error # ""

\* C7: with a malformed exclude pattern the scan ends with a configuration
\* error before the traversal: no object is visited, no event is sent, no
\* counter changes
C7_BadPatternStopsBeforeTraversal ==
    ~PatternsCompile(cfg) =>
        /\ phase \in {"init", "done"}
        /\ phase = "done" => result.status = "ConfigError"
        /\ \A n \in Nodes : pc[n] = "idle" /\ entry[n] = NoEntry
        /\ chan = <<>>
        /\ stats = ZeroStats
        /\ hardlinks = <<>> /\ next_id = 1 /\ root_device = <<>>

C7_Witness ==
    /\ ~PatternsCompile(cfg)
    /\ hasSender /\ rxAlive
    /\ phase = "done"

\* C8: in channel order the counters of the Progress snapshots never
\* decrease
C8_SnapshotsMonotone ==
    \A i, j \in ProgressEvents :
        i < j =>
            /\ chan[i].stats.total_entries <= chan[j].stats.total_entries
            /\ chan[i].stats.directories <= chan[j].stats.directories
            /\ chan[i].stats.files <= chan[j].stats.files
            /\ chan[i].stats.errors <= chan[j].stats.errors
            /\ chan[i].stats.total_size <= chan[j].stats.total_size

\* C9: a successful scan with an attached consumer sends exactly one
\* Complete message; it carries the returned root and it is the last message
\* of the channel, behind every Progress message of every worker
C9_CompleteOnceAndLast ==
    /\ \A i \in 1..Len(chan) :
           chan[i].kind = "Complete" =>
               /\ i = Len(chan)
               /\ Returned
               /\ chan[i].root = result.root
    /\ (Returned /\ hasSender /\ rxAlive) =>
           /\ chan # <<>>
           /\ chan[Len(chan)].kind = "Complete"
           /\ \A n \in Tree : \E i \in ProgressEvents : chan[i].current_path = n

C9_Witness ==
    /\ Returned /\ hasSender /\ rxAlive
    /\ cfg.threads > 1
    /\ Cardinality(ProgressEvents) >= 4

\* the entry scan_entry builds for n when its children are the entries of
\* kids, as a function of the filesystem and the configuration only; ids are
\* 0 and a later sighting of a hardlink is left File
ExpectedEntry(n, kids) ==
    LET rootdev == IF cfg.same_fs THEN <<get_metadata(fs[Root], TRUE)[1].dev>> ELSE <<>>
        h == ScanHead(cfg, rootdev, Path(n), fs[n], 0)
    IN  IF h.how # "counted" THEN h.entry
        ELSE LET m == get_metadata(fs[n], cfg.follow_symlinks)[1]
                 e == WithExtended(cfg, m, h.entry)
             IN  IF get_entry_type(m) # "Directory" THEN e
                 ELSE LET d == DirOutcome(cfg, fs[n], e) IN
                      IF d.how # "listed" THEN d.entry
                      ELSE [e EXCEPT !.children = sort_entries(cfg, kids, Listing(n))]

\* the expected entries of all nodes, built from the leaves up
RECURSIVE ExpectedEntries(_)
ExpectedEntries(depth) ==
    IF depth = 0 THEN [n \in Nodes |-> NoEntry]
    ELSE LET kids == ExpectedEntries(depth - 1) IN
         [n \in Nodes |-> ExpectedEntry(n, kids)]

Expected == ExpectedEntries(NumNodes)

\* an entry without its id and without the File/Hardlink distinction
Plain(e) ==
    [e EXCEPT !.id = 0, !.entry_type = IF @ = "Hardlink" THEN "File" ELSE @]

\* the returned tree is the expected one, up to ids and to which sighting of
\* a hardlinked inode came first
TreeAsExpected ==
    /\ Tree = Subtree(Expected, Root)
    /\ \A n \in Tree : Plain(entry[n]) = Expected[n]

\* C10: progress reporting never blocks or fails the scan: without a
\* sender, with a dropped receiver, with a receiver that never reads and
\* with one that reads, the scan call returns, and it returns Ok with the
\* tree that the filesystem and the configuration determine
C10_ScanUnaffectedByConsumer ==
    /\ <>(phase = "done")
    /\ [](phase = "done" => (Returned /\ TreeAsExpected))

C10_Witness ==
    /\ Returned /\ hasSender /\ rxAlive
    /\ rcvd = 0 /\ Len(chan) >= 4

\* C11: when a JSON export is configured and main returns success, the
\* exporter's export operation has been called with the scanned root
C11_ExportBeforeSuccess ==
    (exit = "Ok" /\ cfg.export_json) => exported = <<result.root>>

\* the nodes an entry has been built for
Built == {n \in Nodes : entry[n].entry_type # "Unset"}

\* C12: for every entry of a finished scan, total_size is its size plus the total_size of its
\* children, which makes it the sum of the sizes over its subtree; likewise
\* total_blocks, and total_items with own count 1 (1 for a leaf); the
\* scanner's calculate_total_entry_* helpers return the same values
C12_TotalsAreSubtreeSums ==
    phase = "done" =>
    \A n \in Built :
        LET kids == {entry[n].children[i] : i \in 1..Len(entry[n].children)} IN
        /\ total_size(entry, n)
               = entry[n].size + SumOver(kids, [k \in Nodes |-> total_size(entry, k)])
        /\ total_blocks(entry, n)
               = entry[n].blocks + SumOver(kids, [k \in Nodes |-> total_blocks(entry, k)])
        /\ total_items(entry, n)
               = 1 + SumOver(kids, [k \in Nodes |-> total_items(entry, k)])
        /\ total_size(entry, n) = SumOver(Subtree(entry, n), [k \in Nodes |-> entry[k].size])
        /\ total_blocks(entry, n) = SumOver(Subtree(entry, n), [k \in Nodes |-> entry[k].blocks])
        /\ total_items(entry, n) = Cardinality(Subtree(entry, n))
        /\ entry[n].children = <<>> => total_items(entry, n) = 1
        /\ calculate_total_entry_size(entry, n) = total_size(entry, n)
        /\ calculate_total_entry_blocks(entry, n) = total_blocks(entry, n)
        /\ calculate_total_entry_items(entry, n) = total_items(entry, n)

C12_Witness ==
    /\ Returned
    /\ \E n \in Tree \ {Root} : entry[n].children # <<>>
    /\ Cardinality(Tree) = NumNodes
    /\ total_size(entry, Root) > entry[Root].size

\* the scanned directory holds exactly two 5-byte files and one empty
\* subdirectory, and the configuration is the default one
TwoFilesAndSubdir ==
    /\ [cfg EXCEPT !.threads = 1] = DefaultConfig
    /\ Listable(fs[Root])
    /\ Cardinality(RootEntries) = 3
    /\ Cardinality({n \in RootEntries : fs[n].meta.kind = "file" /\ fs[n].readable
                                          /\ fs[n].meta.size = 5 /\ fs[n].meta.nlink = 1}) = 2
    /\ \E d \in RootEntries : Listable(fs[d]) /\ Listing(d) = <<>>

\* C13: scanning a directory with exactly two 5-byte files and one empty
\* subdirectory under the default configuration returns a Directory root
\* with 3 children, total_items 4, total_size 10 and an error counter of 0
C13_SampleDirectoryTotals ==
    (Returned /\ TwoFilesAndSubdir) =>
        /\ entry[Root].entry_type = "Directory"
        /\ Len(entry[Root].children) = 3
        /\ total_items(entry, Root) = 4
        /\ total_size(entry, Root) = 10
        /\ stats.errors = 0

\* the laws of an order on the results r of one comparator
Reverses(r) == r.ba = -r.ab
Transitive(r) == (r.ab <= 0 /\ r.bc <= 0) => r.ac <= 0

\* a name cut into its characters <<0, c>> and its digit runs <<1>> \o n,
\* n the number the run extracts to (saturated, or 0 <<>> above u64::MAX)
RECURSIVE TokensFrom(_, _, _)
TokensFrom(s, i, saturating) ==
    IF i > Len(s) THEN <<>>
    ELSE IF IsDigit(s[i])
         THEN LET j == DigitRunEnd(s, i)
                  v == StripZeros([k \in 1..(j - i) |-> s[i + k - 1] - 48])
                  n == IF NumCmp(v, U64MaxDigits) <= 0 THEN v
                       ELSE IF saturating THEN U64MaxDigits ELSE <<>>
              IN  <<(<<1>> \o n)>> \o TokensFrom(s, j, saturating)
         ELSE <<(<<0, s[i]>>)>> \o TokensFrom(s, i + 1, saturating)

Applied == arg # <<>> /\ ret.sort # <<>> /\ ret.compare # <<>>

\* C14 as stated: the natural-order comparison is a total order: Equal for
\* identical names, never Equal for two different names, reversed by
\* swapping the arguments, transitive; "file2" sorts before "file10"
C14_NaturalOrderIsTotalOrder ==
    Applied =>
        \A r \in {ret.sort[1], ret.compare[1]} :
            /\ r.aa = 0
            /\ arg[1] # arg[2] => r.ab # 0
            /\ Reverses(r)
            /\ Transitive(r)
            /\ natural_sort(File2, File10) = -1

\* C14 amended: the natural-order comparison is a total preorder: Equal for
\* identical names, reversed by swapping the arguments, transitive; two
\* names compare Equal exactly when they are the same sequence of characters
\* and extracted numbers (so "01" and "1" are Equal); "file2" sorts before
\* "file10"
C14_NaturalOrderIsTotalPreorder ==
    Applied =>
        /\ \A r \in {ret.sort[1], ret.compare[1]} :
               r.aa = 0 /\ Reverses(r) /\ Transitive(r)
        /\ ret.sort[1].ab = 0 <=> TokensFrom(arg[1], 1, TRUE) = TokensFrom(arg[2], 1, TRUE)
        /\ ret.compare[1].ab = 0 <=> TokensFrom(arg[1], 1, FALSE) = TokensFrom(arg[2], 1, FALSE)
        /\ natural_sort(File2, File10) = -1
        /\ natural_compare(File2, File10) = -1

C14_Witness ==
    /\ Applied
    /\ arg[1] # arg[2] /\ ret.sort[1].ab = 0
    /\ ret.sort[1].bc < 0
    /\ \E i, j \in 1..Len(arg[3]) : IsDigit(arg[3][i]) /\ ~IsDigit(arg[3][j])

\* the number a text of digits stands for, cut at u64::MAX
Saturated(name) ==
    LET v == StripZeros([k \in 1..Len(name) |-> name[k] - 48]) IN
    IF NumCmp(v, U64MaxDigits) > 0 THEN U64MaxDigits ELSE v

\* C15: the number extracted from a digit run is the value of the run cut
\* at the maximum unsigned 64-bit integer, in scanner.rs and in utils.rs,
\* and the two comparators order every pair of names alike
C15_ExtractionSaturates ==
    Applied =>
        /\ \A i \in 1..3 :
               (\A k \in 1..Len(arg[i]) : IsDigit(arg[i][k])) =>
                   /\ ret.sort[1].num[i] = Saturated(arg[i])
                   /\ ret.compare[1].num[i] = Saturated(arg[i])
        /\ ret.sort[1].ab = ret.compare[1].ab

\* the sorted children, as entries, once sort_entries has been applied
Sorted == [p \in 1..Len(ret[1]) |-> arg.entries[ret[1][p]]]

\* C16: with directories first, after sorting no entry that is_directory()
\* (Directory, OtherFs, KernelFs) comes after one that is not, for every
\* sort column and both orders
C16_DirectoriesFirst ==
    (ret # <<>> /\ arg.config.sort_dirs_first) =>
        \A p, q \in 1..Len(Sorted) :
            (p < q /\ is_directory(Sorted[q].entry_type)) => is_directory(Sorted[p].entry_type)

C16_Witness ==
    /\ ret # <<>> /\ arg.config.sort_dirs_first
    /\ arg.config.sort_order = "Desc" /\ arg.config.sort_col = "Size"
    /\ Len(arg.entries) = 3
    /\ ~is_directory(arg.entries[1].entry_type)
    /\ is_directory(arg.entries[3].entry_type)
    /\ calculate_total_entry_size(arg.entries, 3) < calculate_total_entry_size(arg.entries, 1)

\* positions p < q of the sorted children are in Mtime order: ascending, an
\* entry without a time is not after one with a time and times do not
\* decrease; descending, the reverse; entries without a time compare Equal
\* and keep their listing order
MtimeOrdered(p, q) ==
    LET a == EntryMtime(Sorted[p])
        b == EntryMtime(Sorted[q])
    IN  /\ (a = <<>> /\ b = <<>>) => SortCompare(arg.config, arg.entries, ret[1][p], ret[1][q]) = 0
        /\ (a = <<>> /\ b = <<>> /\ is_directory(Sorted[p].entry_type) = is_directory(Sorted[q].entry_type))
               => ret[1][p] < ret[1][q]
        /\ IF arg.config.sort_order = "Asc"
           THEN /\ ~(a # <<>> /\ b = <<>>)
                /\ (a # <<>> /\ b # <<>>) => a[1] <= b[1]
           ELSE /\ ~(a = <<>> /\ b # <<>>)
                /\ (a # <<>> /\ b # <<>>) => a[1] >= b[1]

\* C17 as stated: under the Mtime column, ascending, every entry without a
\* modification time is placed before every entry with one, two entries
\* without a time compare Equal, two with times compare by time; descending
\* is the reverse
C17_MtimeOrder ==
    (ret # <<>> /\ arg.config.sort_col = "Mtime") =>
        \A p, q \in 1..Len(Sorted) : p < q => MtimeOrdered(p, q)

\* C17 amended: the same, among the entries that directories-first does not
\* separate: all entries when it is off, entries of the same is_directory()
\* class when it is on
C17_MtimeOrderWithinClass ==
    (ret # <<>> /\ arg.config.sort_col = "Mtime") =>
        \A p, q \in 1..Len(Sorted) :
            (/\ p < q
             /\ arg.config.sort_dirs_first =>
                    is_directory(Sorted[p].entry_type) = is_directory(Sorted[q].entry_type))
                => MtimeOrdered(p, q)

C17_Witness ==
    /\ ret # <<>> /\ arg.config.sort_col = "Mtime" /\ arg.config.sort_order = "Asc"
    /\ Len(arg.entries) = 3
    /\ EntryMtime(arg.entries[1]) = <<2>>
    /\ arg.entries[2].extended = <<>>
    /\ arg.entries[3].extended # <<>> /\ EntryMtime(arg.entries[3]) = <<>>
    /\ ret[1] = <<2, 3, 1>>

\* every name of the tree is valid text
RECURSIVE ValidNames(_)
ValidNames(x) ==
    /\ \A i \in 1..Len(x.name) : x.name[i] # InvalidByte
    /\ \A i \in 1..Len(x.children) : ValidNames(x.children[i])

\* the same shape, and in every node the same entry_type, name, size,
\* blocks, device, inode, nlink, id, error message and child order
RECURSIVE SameTree(_, _)
SameTree(x, y) ==
    /\ x.entry_type = y.entry_type /\ x.name = y.name
    /\ x.size = y.size /\ x.blocks = y.blocks
    /\ x.device = y.device /\ x.inode = y.inode /\ x.nlink = y.nlink
    /\ x.id = y.id /\ x.error = y.error
    /\ Len(x.children) = Len(y.children)
    /\ \A i \in 1..Len(x.children) : SameTree(x.children[i], y.children[i])

CompleteTexts == {export_to_json_string(t) : t \in CodecTrees}

\* C19: an import of data that is not a complete serializable entry, or
\* that cannot be opened or read, returns an import error and no tree, from
\* a string, a file and standard input
C19_BadImportIsAnError ==
    (arg # <<>> /\ ret.json # <<>> /\ ret.imported # <<>>) =>
        LET imp == ret.imported[1] IN
        (~imp.io \/ imp.data \notin CompleteTexts) =>
            /\ imp.result.status = "ImportError"
            /\ DOMAIN imp.result = {"status"}

C19_Witness ==
    /\ arg # <<>> /\ ret.json # <<>> /\ ret.imported # <<>>
    /\ ret.imported[1].via = "stdin" /\ ret.imported[1].io
    /\ Len(ret.imported[1].data) > 14
    /\ Len(ret.imported[1].data) < Len(ret.json[1])
    /\ ret.imported[1].result.status = "ImportError"

\* the registry with the record of one key only: shared_size with it is what
\* the inode of the key adds to the shared size
OnlyKey(hl, key) == [k \in {key} |-> hl[k]]

\* C20: with the registry of a finished scan, the shared_size of the root
\* holds the bytes of an inode at most (total_links - links_in_tree) times,
\* and not at all when total_links = links_in_tree
C20_SharedSizeBounded ==
    Returned =>
        \A key \in DOMAIN hardlinks :
            shared_size(entry, OnlyKey(hardlinks, key), Root)
                <= (hardlinks[key].total_links - hardlinks[key].links_in_tree)
                       * hardlinks[key].size

\* the path is a pseudo mount point or lies below one
BelowPseudoMount(path) ==
    \E p \in PSEUDO_FS : path = p \/ StartsWith(path, p \o <<Slash>>)

\* C21: with kernel-filesystem exclusion on, a path is taken for a kernel
\* filesystem exactly when it is a pseudo mount point or starts with one
\* followed by '/', and with the option off never; scan_entry classifies
\* an object KernelFs only at such a path, and at every such path when its
\* metadata is read and it is not on another filesystem
C21_KernelFsOnPathBoundary ==
    /\ ret.kernel # <<>> =>
           ret.kernel[1] = (arg.config.exclude_kernfs /\ BelowPseudoMount(arg.path))
    /\ ret.head # <<>> =>
           LET isKernel == ret.head[1].entry.entry_type = "KernelFs"
               md == get_metadata(arg.object, arg.config.follow_symlinks)
           IN  /\ isKernel => (arg.config.exclude_kernfs /\ BelowPseudoMount(arg.path))
               /\ (/\ md # <<>>
                   /\ ~is_different_filesystem(arg.config, arg.rootdev, md[1].dev)
                   /\ arg.config.exclude_kernfs
                   /\ BelowPseudoMount(arg.path)) => isKernel

C21_Witness ==
    /\ arg.config.exclude_kernfs
    /\ arg.path = <<47, 112, 114, 111, 99>> \o TextFoo
    /\ ret.kernel = <<FALSE>>
    /\ ret.head # <<>> /\ ret.head[1].entry.entry_type = "Directory"

\* the name of node n begins with '.'
Hidden(n) == NodeName(n) # <<>> /\ NodeName(n)[1] = Dot

\* the entries the listing of a scanned directory returned
Offered ==
    {n \in Nodes \ {Root} :
        parent[n] \in Tree /\ entry[parent[n]].entry_type = "Directory" /\ fs[n].yields}

\* the entries of the tree that scan_entry counted in the statistics
Counted == {n \in Tree : ScanHead(cfg, root_device, Path(n), fs[n], 0).how = "counted"}

\* C22: when hidden files are not shown, no node below the root has a name
\* that begins with '.', no entry is built and no progress event is sent
\* for such an object and the entry counter counts the nodes of the tree
\* only; when they are shown, every entry a listing returned has a node
C22_HiddenEntriesFiltered ==
    Returned =>
        /\ ~cfg.show_hidden =>
               /\ \A n \in Tree \ {Root} : entry[n].name # <<>> /\ entry[n].name[1] # Dot
               /\ \A n \in Nodes \ {Root} :
                      Hidden(n) =>
                          /\ entry[n] = NoEntry
                          /\ \A i \in ProgressEvents : chan[i].current_path # n
               /\ stats.total_entries = Cardinality(Counted)
        /\ cfg.show_hidden =>
               \A n \in Offered :
                   \E i \in 1..Len(entry[parent[n]].children) : entry[parent[n]].children[i] = n

C22_Witness ==
    /\ Returned
    /\ ~cfg.show_hidden /\ hasSender
    /\ \E n \in Offered : Hidden(n) /\ parent[n] # Root
    /\ Cardinality(Tree) = NumNodes - 1
    /\ Cardinality(ProgressEvents) = NumNodes

\* no scan_entry call is under way, and every directory of the tree holds
\* every entry that was to be scanned in it
WholeTreeBuilt ==
    /\ \A n \in Nodes : pc[n] \in {"idle", "done"}
    /\ result.status = "Ok" =>
           \A n \in Tree :
               /\ pc[n] = "done"
               /\ entry[n].entry_type = "Directory" =>
                      {entry[n].children[i] : i \in 1..Len(entry[n].children)}
                          = {m \in Nodes : InListing(n, m)}

\* C23: the top-level scan call eventually returns, and when it has
\* returned no scan_entry call is under way and the whole tree is built,
\* with and without symlink following, sequentially and in parallel
C23_ScanReturnsWithWholeTree ==
    /\ <>(phase = "done")
    /\ [](phase = "done" => WholeTreeBuilt)

C23_Witness ==
    /\ Returned
    /\ cfg.follow_symlinks /\ cfg.threads > 1
    /\ fs[2] = OwnIno(DirLink, 2)
    /\ entry[2].entry_type = "Directory" /\ entry[2].children = <<NumNodes>>
    /\ entry[NumNodes].entry_type = "Error"

\* the children of arg as sort_entries leaves them when they are delivered
\* in the given order
SortedFrom(order) ==
    LET s == sort_entries(arg.config, arg.entries, order)
    IN  [p \in 1..Len(s) |-> arg.entries[s[p]]]

\* C24: the order of the children after sort_entries is the same for every
\* order in which the same children are delivered to it, also when some of
\* them compare Equal
C24_SortedOrderIsDeterministic ==
    ret # <<>> =>
        \A order \in Permutations(1..Len(arg.entries)) : SortedFrom(order) = Sorted

\* the entries that have been pushed into the children of a directory
AttachedEntries ==
    {n \in Nodes : \E d \in Nodes : \E i \in 1..Len(entry[d].children) : entry[d].children[i] = n}

\* C25: an entry that has been attached as a child is not changed by any
\* later step of the scan: its classification, its metrics and its children
\* stay as they were at attachment
C25_AttachedEntriesAreFrozen ==
    [][\A n \in AttachedEntries : entry'[n] = entry[n]]_vars

C25_Witness ==
    /\ cfg.threads > 1
    /\ phase = "scanning"
    /\ \E n \in AttachedEntries, m \in Nodes :
           /\ entry[n].entry_type = "File" /\ entry[n].nlink > 1
           /\ pc[m] = "done" /\ entry[m].entry_type = "Hardlink"
           /\ entry[m].inode = entry[n].inode
           /\ m \notin AttachedEntries

\* C26: at every moment of a scan an entry has children only if it is
\* classified Directory (File, Symlink, Hardlink, Special, Error, Excluded,
\* OtherFs and KernelFs entries have none), and the root of a returned tree
\* has no parent
C26_OnlyDirectoriesHaveChildren ==
    /\ \A n \in Nodes : entry[n].children # <<>> => entry[n].entry_type = "Directory"
    /\ Returned => (result.root.parent = <<>> /\ entry[Root].parent = <<>>)

C26_Witness ==
    /\ Returned
    /\ Len(result.root.children) >= 2
    /\ \E n \in Tree : entry[n].entry_type = "Excluded" /\ fs[n].list /\ fs[n].tag
                        /\ \E m \in Nodes : parent[m] = n
    /\ \E n \in Tree : entry[n].entry_type \in {"OtherFs", "File"}

\* C27: the ids handed out by the generator strictly increase in the order
\* of the calls, so no two entries get the same id, whichever workers of
\* whichever scans make the calls
C27_EntryIdsUniqueAndIncreasing ==
    \A i, j \in 1..Len(ret) : i < j => ret[i].id < ret[j].id

C27_Witness ==
    /\ Len(ret) = MaxCalls
    /\ ret[1].scan # ret[2].scan
    /\ ret[1].scan = ret[3].scan /\ ret[1].worker # ret[3].worker
    /\ ret[MaxCalls].id = MaxCalls

\* the objects in the directories the scan listed, and those of them whose
\* enumeration or metadata read fails
InScannedDirectory ==
    {n \in Nodes \ {Root} : parent[n] \in Tree /\ entry[parent[n]].entry_type = "Directory"}
FailedObjects ==
    {n \in InScannedDirectory :
        \/ ~fs[n].yields
        \/ should_include_entry(cfg, NodeName(n)) /\ get_metadata(fs[n], cfg.follow_symlinks) = <<>>}

IsChild(d, n) == \E i \in 1..Len(entry[d].children) : entry[d].children[i] = n

ColumnOf(c) ==
    CASE c = TextName -> "Name"
      [] c = TextDiskUsage -> "Blocks"
      [] c = TextApparentSize -> "Size"
      [] c = TextItemcount -> "Items"
      [] c = TextMtime -> "Mtime"
NamedOptions ==
    {[text |-> c, col |-> ColumnOf(c), ord |-> <<>>] : c \in valid_columns}
    \cup {[text |-> c \o <<Dash>> \o TextAsc, col |-> ColumnOf(c), ord |-> <<"Asc">>] :
              c \in valid_columns}
    \cup {[text |-> c \o <<Dash>> \o TextDesc, col |-> ColumnOf(c), ord |-> <<"Desc">>] :
              c \in valid_columns}

ChecksThatApply(n) ==
    LET md == get_metadata(fs[n], cfg.follow_symlinks) IN
    (IF md = <<>> THEN {1} ELSE {})
    \cup (IF md # <<>> /\ is_different_filesystem(cfg, root_device, md[1].dev) THEN {2} ELSE {})
    \cup (IF is_kernel_filesystem(cfg, Path(n)) THEN {3} ELSE {})
    \cup (IF is_excluded_by_pattern(cfg, Path(n)) THEN {4} ELSE {})
FirstCheck(n) ==
    IF ChecksThatApply(n) = {} THEN 0
    ELSE CHOOSE k \in ChecksThatApply(n) : \A j \in ChecksThatApply(n) : k <= j
CheckTypes == <<"Error", "OtherFs", "KernelFs", "Excluded">>

\* the nodes scan_entry has classified, and the registry keys of the regular
\* files with several links among the nodes in S
Classified == {n \in Nodes : entry[n].entry_type # "Unset"}
LinkKeys(S) ==
    {HardlinkKey(AsU32(fs[n].meta.dev), fs[n].meta.ino) :
        n \in {m \in S : fs[m].meta.kind = "file" /\ fs[m].meta.nlink > 1}}

\* C30: the first check that applies decides the node: a metadata failure
\* gives Error, else another device under same-filesystem mode OtherFs, else
\* a kernel path KernelFs, else a pattern match Excluded, each with no
\* size; only the nodes to which no check applies are classified by file
\* type, counted in the statistics and entered in the hardlink registry
C30_FirstCheckDecides ==
    LET byType == {n \in Classified : FirstCheck(n) = 0} IN
    /\ \A n \in Classified \ byType :
           /\ entry[n].entry_type = CheckTypes[FirstCheck(n)]
           /\ entry[n].size = 0 /\ entry[n].blocks = 0
           /\ pc[n] = "done"
    /\ \A n \in byType :
           pc[n] = "classified" =>
               entry[n].entry_type
                   = get_entry_type(get_metadata(fs[n], cfg.follow_symlinks)[1])
    /\ stats.total_entries = Cardinality(byType)
    /\ DOMAIN hardlinks \subseteq LinkKeys(byType)
    /\ LinkKeys({n \in byType : pc[n] = "done"}) \subseteq DOMAIN hardlinks

C30_Witness ==
    /\ Returned
    /\ ChecksThatApply(2) = {3, 4} /\ entry[2].entry_type = "KernelFs"
    /\ ChecksThatApply(3) = {2, 4} /\ entry[3].entry_type = "OtherFs"
    /\ ChecksThatApply(4) = {} /\ entry[4].entry_type = "File"
    /\ DOMAIN hardlinks # {}

\* the entries of the tree that carry the registry key
EntriesWithKey(key) ==
    {n \in LinkEntries : HardlinkKey(entry[n].device, entry[n].inode) = key}

\* C31: a scan starts with an empty registry of its own, and when it has
\* finished links_in_tree of every key is the number of tree entries with
\* that key, one File and the Hardlink entries, and at least 1, for
\* sequential and parallel scans
C31_LinksInTreeCountsEntries ==
    /\ phase = "init" => hardlinks = <<>>
    /\ Returned =>
           \A key \in DOMAIN hardlinks :
               /\ hardlinks[key].links_in_tree >= 1
               /\ hardlinks[key].links_in_tree = Cardinality(EntriesWithKey(key))
               /\ Cardinality({n \in EntriesWithKey(key) : entry[n].entry_type = "File"}) = 1

C31_Witness ==
    /\ Returned
    /\ cfg.threads > 1
    /\ \E key \in DOMAIN hardlinks :
           /\ hardlinks[key].links_in_tree = 3
           /\ Cardinality(EntriesWithKey(key)) = hardlinks[key].total_links

\* the nodes of the tree classified Error
ErrorNodes == {n \in Tree : entry[n].entry_type = "Error"}

\* C32: when a scan has finished the error counter is the number of nodes
\* classified Error in the returned tree, a metadata failure and a failed
\* directory listing each having added one, for sequential and parallel
\* scans
C32_ErrorCounterCountsErrorNodes ==
    Returned =>
        /\ stats.errors = Cardinality(ErrorNodes)
        /\ \A n \in Nodes : entry[n].entry_type = "Error" => n \in Tree

C32_Witness ==
    /\ Returned
    /\ cfg.threads > 1
    /\ stats.errors >= 2
    /\ \E n, m \in ErrorNodes :
           /\ get_metadata(fs[n], cfg.follow_symlinks) = <<>>
           /\ get_metadata(fs[m], cfg.follow_symlinks) # <<>>
           /\ fs[m].meta.kind = "dir"

\* the nodes scan_entry has counted so far, and the size and the blocks of
\* their metadata
CountedSoFar ==
    {n \in Classified : ScanHead(cfg, root_device, Path(n), fs[n], 0).how = "counted"}
MetaSize ==
    [n \in Nodes |-> LET md == get_metadata(fs[n], cfg.follow_symlinks) IN
                     IF md = <<>> THEN 0 ELSE md[1].size]
MetaBlocks ==
    [n \in Nodes |-> LET md == get_metadata(fs[n], cfg.follow_symlinks) IN
                     IF md = <<>> THEN 0 ELSE md[1].blocks]

\* C33: at every moment directories + files <= total_entries, and the entry,
\* size and block counters hold the nodes that passed the placeholder checks
\* and the metadata read, and nothing of an OtherFs, KernelFs or
\* pattern-Excluded placeholder or of a node whose metadata read failed;
\* when the scan has finished total_entries = directories + files
C33_CountersLeaveOutPlaceholders ==
    LET counted == CountedSoFar IN
    /\ stats.directories + stats.files <= stats.total_entries
    /\ stats.total_entries = Cardinality(counted)
    /\ stats.total_size = SumOver(counted, MetaSize)
    /\ stats.total_blocks = SumOver(counted, MetaBlocks)
    /\ Returned =>
           /\ stats.total_entries = stats.directories + stats.files
           /\ stats.directories =
                  Cardinality({n \in counted : get_entry_type(fs[n].meta) = "Directory"})

C33_Witness ==
    /\ Returned
    /\ stats.directories >= 1
    /\ stats.files >= 1
    /\ \E n \in Tree \ CountedSoFar :
           entry[n].entry_type \in {"OtherFs", "KernelFs", "Excluded"}
    /\ \E n \in Tree : get_metadata(fs[n], cfg.follow_symlinks) = <<>>

\* C34: when a scan has finished the size counter is total_size() of the
\* returned root and the block counter its total_blocks(), for sequential
\* and parallel scans
C34_CountersEqualRootTotals ==
    Returned =>
        /\ stats.total_size = total_size(entry, Root)
        /\ stats.total_blocks = total_blocks(entry, Root)

C34_Witness ==
    /\ Returned
    /\ cfg.threads > 1
    /\ stats.total_size > 0
    /\ \E n, m \in Tree \ {Root} :
           /\ parent[m] = n
           /\ entry[n].size > 0
           /\ entry[m].size > 0
    /\ \E n \in Tree : entry[n].entry_type \in {"Error", "Hardlink"}

\* the order in which a scan with one thread calls scan_entry: an object,
\* then the listing of a directory that is scanned, entry by entry
RECURSIVE DepthFirst(_)
DepthFirst(n) ==
    LET l == IF entry[n].entry_type = "Directory" THEN Listing(n) ELSE <<>>
        F[i \in 0..Len(l)] == IF i = 0 THEN <<>> ELSE F[i - 1] \o DepthFirst(l[i])
    IN  <<n>> \o F[Len(l)]

PositionIn(seq, n) == CHOOSE i \in 1..Len(seq) : seq[i] = n

\* the classification a scan with one thread gives the members of a hardlink
\* group: File to the first one in its order, Hardlink to the others
SequentialType(n) ==
    LET order == DepthFirst(Root) IN
    IF \A m \in SameKey(n) : PositionIn(order, n) <= PositionIn(order, m)
    THEN "File" ELSE "Hardlink"

\* C35: a scan returns the tree of the scan with one thread, whatever its
\* thread count: the expected tree, and in each hardlink group the member
\* classified File is the one the sequential order reaches first
C35_ParallelTreeIsSequentialTree ==
    Returned =>
        /\ TreeAsExpected
        /\ \A n \in LinkEntries : entry[n].entry_type = SequentialType(n)

\* the terminal messages in the channel
Terminals == {i \in 1..Len(chan) : chan[i].kind \in {"Complete", "Error"}}

\* C36: the scan thread of the TUI sends one terminal message and nothing
\* after it: Complete with the tree when the scan returned Ok, Error when
\* it returned Err; only a receiver that the user's quit has dropped while
\* scanning leaves the channel without it
C36_OneTerminalMessage ==
    /\ Cardinality(Terminals) <= 1
    /\ \A i \in Terminals :
           /\ i = Len(chan)
           /\ phase = "done"
           /\ chan[i].kind = "Complete" <=> result.status = "Ok"
           /\ chan[i].kind = "Complete" => chan[i].root = result.root
           /\ chan[i].kind = "Error" => thread = "finished"
    /\ (thread = "finished" /\ Terminals = {}) => (exit = "Ok" /\ app.mode = "Scanning")

C36_Witness ==
    /\ thread = "finished"
    /\ result.status = "ScanError"
    /\ Terminals = {1}
    /\ chan[1].kind = "Error"

\* C37: the TUI leaves Scanning for Browsing only in an update that
\* received Complete, and then root and current directory are the root of
\* the message, the path stack is empty and the selection is 0; Browsing is
\* never left for Scanning and no message is received in it; an update that
\* received Error returns the scan error and stays out of Browsing
C37_BrowsingOnlyByComplete ==
    [][/\ (app.mode # "Browsing" /\ app'.mode = "Browsing") =>
              /\ app.mode = "Scanning"
              /\ rcvd' > rcvd
              /\ chan[rcvd'].kind = "Complete"
              /\ app'.root = chan[rcvd'].root
              /\ app'.current_dir = chan[rcvd'].root
              /\ app'.path_stack = <<>>
              /\ app'.selected = 0
       /\ app.mode = "Browsing" => (app'.mode = "Browsing" /\ rcvd' = rcvd)
       /\ (rcvd' > rcvd /\ chan[rcvd'].kind = "Error") =>
              (exit' = "Err" /\ app'.mode = "Scanning")
       /\ (exit = "scan" /\ exit' = "Err" /\ thread # "none") =>
              (rcvd' > rcvd /\ chan[rcvd'].kind = "Error")]_vars

C37_Witness ==
    /\ app.mode = "Browsing"
    /\ app.current_dir = result.root
    /\ rcvd = Len(chan)
    /\ rcvd >= 4

\* the entry c is a child of the entry p
ChildEntry(p, c) == \E i \in 1..Len(p.children) : entry[p.children[i]] = c

\* a position in the tree: the path stack leads from the root to the
\* current directory, and the selection is within its children
InTree(root, current, stack, selected) ==
    /\ stack = <<>> => current = root
    /\ stack # <<>> =>
           /\ stack[1] = root
           /\ \A i \in 1..(Len(stack) - 1) : ChildEntry(stack[i], stack[i + 1])
           /\ ChildEntry(stack[Len(stack)], current)
           /\ is_directory(current.entry_type)
    /\ current.children # <<>> => selected < Len(current.children)
    /\ selected >= 0

\* what a key may do to a position: only Enter and Left leave the current
\* directory, and then the selection is 0; Left with an empty stack changes
\* nothing
KeyEffect(key, stack, current, stackAfter, currentAfter, selectedAfter, same) ==
    /\ (key = "Left" /\ stack = <<>>) => same
    /\ (currentAfter # current \/ stackAfter # stack) =>
           /\ key \in {"Enter", "Left"}
           /\ selectedAfter = 0
           /\ key = "Enter" =>
                  (is_directory(currentAfter.entry_type) /\ stackAfter = Append(stack, current))
           /\ key = "Left" =>
                  (currentAfter = stack[Len(stack)] /\ Append(stackAfter, currentAfter) = stack)

\* C39: in the old browser and in the Browsing mode of the TUI, after any
\* keys, the path stack leads from the root to the current directory, the
\* selection is below the number of children when there are any, only an
\* is_directory() entry is entered, going back with an empty stack changes
\* nothing and entering and going back set the selection to 0
C39_NavigationStaysInTree ==
    /\ the_browser # <<>> =>
           LET b == the_browser[1] IN
           /\ InTree(b.root, b.current, b.path_stack, b.selected_index)
           /\ b.root = result.root
           /\ \A key \in Keys :
                  LET h == handle_key(b, entry, key).browser IN
                  KeyEffect(key, b.path_stack, b.current, h.path_stack, h.current,
                            h.selected_index, h = b)
    /\ app.mode = "Browsing" =>
           /\ InTree(app.root, app.current_dir, app.path_stack, app.selected)
           /\ app.root = result.root
           /\ \A key \in Keys :
                  LET h == handle_key_event(app, entry, key).app IN
                  KeyEffect(key, app.path_stack, app.current_dir, h.path_stack,
                            h.current_dir, h.selected, h = app)

C39_Witness ==
    /\ the_browser # <<>>
    /\ Len(the_browser[1].path_stack) = 2
    /\ the_browser[1].current.entry_type = "Directory"

\* C38: when the scan returns a tree and the user does not quit, the TUI
\* enters Browsing mode, although one update takes at most MessagesPerTick
\* messages and the scan has queued more than that
C38_BrowsingIsReached ==
    (<>Returned /\ [](exit # "Ok")) => <>(app.mode = "Browsing")

C38_Witness ==
    /\ app.mode = "Browsing"
    /\ Len(chan) > MessagesPerTick
    /\ rcvd = Len(chan)
    /\ chan[rcvd].kind = "Complete"

\* C40: regular files on different devices are never links of one object:
\* two files with different device ids have different registry keys, and a
\* Hardlink entry has the device id and the inode of the File entry of its
\* key
C40_LinksShareFullDevice ==
    Returned =>
        /\ \A n, m \in LinkEntries :
               fs[n].meta.dev # fs[m].meta.dev =>
                   HardlinkKey(entry[n].device, entry[n].inode)
                       # HardlinkKey(entry[m].device, entry[m].inode)
        /\ \A n \in Tree :
               entry[n].entry_type = "Hardlink" =>
                   \E m \in EntriesWithKey(HardlinkKey(entry[n].device, entry[n].inode)) :
                       /\ entry[m].entry_type = "File"
                       /\ fs[m].meta.dev = fs[n].meta.dev
                       /\ fs[m].meta.ino = fs[n].meta.ino

====
